---- MODULE Spec2Model ----
(***************************************************************************)
(* A state-machine model of the analytics core of the carbon emissions    *)
(* intelligence platform (backend/app/ml/models):                          *)
(*   - CarbonReductionOptimizer   (optimization.py)                        *)
(*   - CarbonScenarioModeler      (scenario_modeling.py)                   *)
(*   - EmissionAnomalyDetector    (anomaly_detection.py)                   *)
(*   - EmissionForecaster         (forecasting.py)                         *)
(* Each component is an object with its own fields; one specification per  *)
(* component drives that object's methods with inputs drawn from bounded   *)
(* sets while the other components stay idle.                              *)
(* Two further specifications: SpecConc runs a modeler and a forecaster in *)
(* two threads over numpy's process-wide random generator, and SpecRetry   *)
(* runs one call of a function wrapped by handle_api_error                 *)
(* (backend/app/utils/error_handler.py).                                   *)
(* SpecStat trains and applies the statistical detector on one feature     *)
(* column, SpecCmp stores scenarios and compares them, SpecAp drives the   *)
(* approval workflow of an ESG report (esg/services/approval_service.py)   *)
(* and SpecLim runs threads through one RateLimiter                        *)
(* (backend/app/utils/rate_limiter.py).                                    *)
(*                                                                         *)
(* Numbers.  Python floats are modelled by exact integer or rational       *)
(* arithmetic (rounding error is outside the model).  Python's 0-based     *)
(* positions are 1-based here.                                             *)
(***************************************************************************)
EXTENDS Integers, Sequences, FiniteSets, TLC

VARIABLES
    \* ---- CarbonReductionOptimizer
    sortTies,       \* how this build's np.argsort orders equal keys
    optProblem,     \* initiatives / budget_constraint / target_reduction
    optResult,      \* what the last optimizer call returned (or that it raised)
    optSummary,     \* self.optimization_results
    \* ---- CarbonScenarioModeler
    nowYear,            \* datetime.now().year
    baseline_scenario,  \* self.baseline_scenario
    scenarios,          \* self.scenarios
    scenario_order,     \* the keys of self.scenarios in insertion order
    scnResult,          \* the last modeler call: what it returned or raised
    scnCalls,           \* calls counted against MaxCalls
    \* ---- EmissionAnomalyDetector
    anomModels,     \* self.models
    is_trained,     \* self.is_trained
    anomResult,     \* the last detector call: what it returned or raised
    \* ---- EmissionForecaster
    fcAdvanced,     \* ADVANCED_MODELS_AVAILABLE: statsmodels and prophet import
    fcTraining,     \* self.models, self.best_model and the best score
    fcTrained,      \* self.is_trained
    fcResult,       \* the last forecaster call: what it returned or raised
    \* ---- two engines used from two threads of one process
    np_random,      \* numpy's process-wide generator behind np.random.normal
    workers,        \* each thread's own engine, its progress and its result
    \* ---- a function wrapped by handle_api_error (utils/error_handler.py)
    retry,          \* one call of the wrapper: its loop and how it ended
    \* ---- the statistical detector on one feature column (anomaly_detection.py)
    statModel,      \* self.models['statistical']: the column's thresholds
    statResult,     \* the last scoring of a batch: results['statistical']
    \* ---- compare_scenarios on a modeler with a baseline (scenario_modeling.py)
    comparison,         \* what the last compare_scenarios call returned
    \* ---- ApprovalWorkflowService on one report (esg/services/approval_service.py)
    db_enforces_not_null,   \* the database checks approver_id NOT NULL
    report,             \* the ESGReport row: status and framework
    approvals,          \* the report's ESGApproval rows, in insertion order
    submissions,        \* submit_for_approval calls counted so far
    apResult,           \* what the last service call returned
    \* ---- RateLimiter shared by threads (utils/rate_limiter.py)
    clock,              \* datetime.now(), in ticks
    limiter,            \* requests_per_minute, self.requests, self.lock
    callers,            \* each thread: outside wait_if_needed or asleep in it
    returned            \* the times at which calls of wait_if_needed returned

optVars == <<sortTies, optProblem, optResult, optSummary>>
scnVars == <<nowYear, baseline_scenario, scenarios, scenario_order, scnResult,
            scnCalls>>

anomVars == <<anomModels, is_trained, anomResult>>
fcVars == <<fcAdvanced, fcTraining, fcTrained, fcResult>>

concVars == <<np_random, workers>>

statVars == <<statModel, statResult>>

cmpVars == <<comparison>>

apVars == <<db_enforces_not_null, report, approvals, submissions, apResult>>

limVars == <<clock, limiter, callers, returned>>

\* What each component's operations leave alone
outsideOpt == <<scnVars, anomVars, fcVars, concVars, retry, statVars, cmpVars, apVars, limVars>>
outsideScn == <<optVars, anomVars, fcVars, concVars, retry, statVars, cmpVars, apVars, limVars>>
outsideAnom == <<optVars, scnVars, fcVars, concVars, retry, statVars, cmpVars, apVars, limVars>>
outsideFc == <<optVars, scnVars, anomVars, concVars, retry, statVars, cmpVars, apVars, limVars>>
outsideConc == <<optVars, scnVars, anomVars, fcVars, retry, statVars, cmpVars, apVars, limVars>>
outsideRetry == <<optVars, scnVars, anomVars, fcVars, concVars, statVars, cmpVars, apVars, limVars>>

outsideStat == <<optVars, scnVars, anomVars, fcVars, concVars, retry, cmpVars, apVars, limVars>>

\* compare_scenarios is run on a modeler that also creates scenarios
outsideCmp == <<optVars, anomVars, fcVars, concVars, retry, statVars, apVars, limVars>>

outsideAp == <<optVars, scnVars, anomVars, fcVars, concVars, retry, statVars, cmpVars, limVars>>

outsideLim == <<optVars, scnVars, anomVars, fcVars, concVars, retry, statVars, cmpVars, apVars>>

vars == <<optVars, scnVars, anomVars, fcVars, concVars, retry, statVars, cmpVars, apVars, limVars>>

(***************************************************************************)
(* Generic helpers                                                         *)
(***************************************************************************)
RECURSIVE SumSeq(_)
SumSeq(s) == IF s = <<>> THEN 0 ELSE Head(s) + SumSeq(Tail(s))

RECURSIVE Gcd(_, _)
Gcd(a, b) == IF b = 0 THEN a ELSE Gcd(b, a % b)

Lcm(a, b) == (a \div Gcd(a, b)) * b

RECURSIVE LcmUpTo(_)
LcmUpTo(n) == IF n <= 1 THEN 1 ELSE Lcm(n, LcmUpTo(n - 1))

\* gcd of the elements of s and of g
RECURSIVE GcdSeq(_, _)
GcdSeq(s, g) == IF s = <<>> THEN g ELSE GcdSeq(Tail(s), Gcd(Head(s), g))

Range(s) == {s[i] : i \in DOMAIN s}

\* All sequences over S of length 0..n
SeqsUpTo(S, n) == UNION {[1..k -> S] : k \in 0..n}

(***************************************************************************)
(* CarbonReductionOptimizer: inputs                                        *)
(***************************************************************************)
MaxItems == 2      \* initiatives per drawn problem
MaxCost == 2       \* largest drawn cost
MaxBudget == 3     \* largest drawn budget
MaxTarget == 1     \* largest drawn target
MaxImpact == 1     \* largest drawn small co2_reduction
BigImpactSteps == 2 \* the large co2_reduction drawn is BigImpactSteps * 1000 - 500

\* genetic_algorithm_optimization: penalty = 1000 * (total_cost - budget)
PenaltyFactor == 1000

\* co2_reduction values drawn: small ones and one that outweighs the
\* penalty of a small budget overage
Impacts == {0, MaxImpact, BigImpactSteps * PenaltyFactor - 500}

\* risk_score in tenths; 5 is the default init.get('risk_score', 0.5)
DefaultRisk == 5
Risks == {1, DefaultRisk}

Initiative(c, r, k) == [cost |-> c, co2_reduction |-> r, risk_score |-> k]

DrawnInitiatives ==
    {Initiative(c, r, k) : c \in {1, MaxCost}, r \in Impacts, k \in Risks}

\* the fixture of tests/test_ml_models.py (sample_initiatives), budget 300000,
\* target 400
SampleInitiatives ==
    << Initiative(50000, 100, DefaultRisk),
       Initiative(200000, 500, DefaultRisk),
       Initiative(75000, 150, DefaultRisk),
       Initiative(150000, 200, DefaultRisk) >>

SampleProblem ==
    [initiatives |-> SampleInitiatives, budget |-> 300000, target |-> 400]

\* a problem with an initiative of negative co2_reduction
NegativeReductionProblem ==
    [initiatives |-> <<Initiative(1, -1, DefaultRisk)>>,
     budget |-> 1, target |-> 1]

NoProblem == [initiatives |-> <<>>, budget |-> 0, target |-> 0]

ProblemDefined == optProblem # NoProblem

costs(p) == [i \in DOMAIN p.initiatives |-> p.initiatives[i].cost]
impacts(p) == [i \in DOMAIN p.initiatives |-> p.initiatives[i].co2_reduction]
risks(p) == [i \in DOMAIN p.initiatives |-> p.initiatives[i].risk_score]
num_initiatives(p) == Len(p.initiatives)

\* Implementation levels of the LP are drawn as multiples of 1/LevelDen: with
\* integer costs up to MaxCost and an integer budget a vertex of the LP has at
\* most one fractional level, (remaining budget) / cost, which is such a multiple.
LevelDen == LcmUpTo(MaxCost)

\* A problem whose LP solution holds a sliver: the first initiative is taken
\* whole, and the one unit of budget left buys 1 / SliverCost of the second.
SliverCost == 200
SliverProblem ==
    [initiatives |-> <<Initiative(SliverCost, 2, DefaultRisk),
                       Initiative(SliverCost, 1, DefaultRisk)>>,
     budget |-> SliverCost + 1, target |-> 2]

\* The levels of a problem's LP vertices, and their unit
LevelDenOf(p) == IF p = SliverProblem THEN SliverCost ELSE LevelDen
Levels(p) == IF p = SliverProblem THEN {0, 1, SliverCost} ELSE 0..LevelDen


(***************************************************************************)
(* Exact rationals [n, d] in lowest terms, d > 0 (stand-in for floats)     *)
(***************************************************************************)
Abs(x) == IF x < 0 THEN -x ELSE x

R(n, d) == LET g == Gcd(Abs(n), d) IN [n |-> n \div g, d |-> d \div g]

RInt(k) == [n |-> k, d |-> 1]
RAdd(a, b) ==
    LET l == Lcm(a.d, b.d) IN R(a.n * (l \div a.d) + b.n * (l \div b.d), l)
RNeg(a) == [n |-> -a.n, d |-> a.d]
RSub(a, b) == RAdd(a, RNeg(b))
RMul(a, b) ==
    LET x == R(a.n, b.d)
        y == R(b.n, a.d)
    IN [n |-> x.n * y.n, d |-> x.d * y.d]
\* a / b for b # 0
RDiv(a, b) ==
    IF b.n > 0 THEN RMul(a, [n |-> b.d, d |-> b.n])
    ELSE RMul(RNeg(a), [n |-> b.d, d |-> -b.n])
RLt(a, b) ==
    LET l == Lcm(a.d, b.d) IN a.n * (l \div a.d) < b.n * (l \div b.d)
RLe(a, b) == ~RLt(b, a)
RMin(a, b) == IF RLt(b, a) THEN b ELSE a
RMax(a, b) == IF RLt(a, b) THEN b ELSE a

RECURSIVE RPow(_, _)
RPow(a, k) == IF k = 0 THEN RInt(1) ELSE RMul(a, RPow(a, k - 1))

RECURSIVE RSum(_)
RSum(s) == IF s = <<>> THEN RInt(0) ELSE RAdd(Head(s), RSum(Tail(s)))

(***************************************************************************)
(* cost_effectiveness_optimization                                         *)
(***************************************************************************)
\* ratios = impacts / costs, compared by cross-multiplication (costs > 0)
RatioLess(p, i, j) == impacts(p)[i] * costs(p)[j] < impacts(p)[j] * costs(p)[i]
RatioEq(p, i, j) == impacts(p)[i] * costs(p)[j] = impacts(p)[j] * costs(p)[i]

\* Whether i comes before j in np.argsort(ratios): ascending by ratio.  The
\* default kind is not a stable sort: the order of equal ratios is a property
\* of the build (insertion sort keeps input order; the SIMD sorts need not).
\* (mutant) the order of equal ratios depends on what the optimizer
\* returned last
ArgsortBeforeByLastResult(p, i, j) ==
    \/ RatioLess(p, i, j)
    \/ /\ RatioEq(p, i, j)
       /\ IF optResult.kind = "result" THEN i < j ELSE i > j

ArgsortBefore(p, i, j) ==
    \/ RatioLess(p, i, j)
    \/ /\ RatioEq(p, i, j)
       /\ IF sortTies = "input_order" THEN i < j ELSE i > j

IndexPermutations(n) == {f \in [1..n -> 1..n] : \A i, j \in 1..n : f[i] = f[j] => i = j}

argsort(p) ==
    LET n == num_initiatives(p) IN
    CHOOSE f \in IndexPermutations(n) :
        \A i, j \in 1..n : i < j => ArgsortBefore(p, f[i], f[j])

Reverse(s) == [i \in DOMAIN s |-> s[Len(s) + 1 - i]]

\* (mutant) the [::-1] forgotten: ascending cost-effectiveness
sorted_indices_ascending(p) == argsort(p)

\* sorted_indices = np.argsort(ratios)[::-1]
sorted_indices(p) == Reverse(argsort(p))

\* if total_cost + self.costs[idx] <= self.budget_constraint
Accepts(p, total_cost, idx) == total_cost + costs(p)[idx] <= p.budget

RECURSIVE GreedyLoop(_, _, _, _)
GreedyLoop(p, order, k, acc) ==
    IF k > Len(order) THEN acc
    ELSE LET idx == order[k] IN
         IF Accepts(p, acc.total_cost, idx)
         THEN GreedyLoop(p, order, k + 1,
                  [selected |-> Append(acc.selected, idx),
                   total_cost |-> acc.total_cost + costs(p)[idx],
                   total_reduction |-> acc.total_reduction + impacts(p)[idx]])
         ELSE GreedyLoop(p, order, k + 1, acc)

Methods == <<"cost_effectiveness", "linear_programming",
             "genetic_algorithm", "multi_objective">>

\* A strategy's return value.  kind = "result": a selection was returned
\* (success True, or no 'success' key); "failed": {'success': False,
\* 'message': ...}; "raised": the call raised (inside run_all_optimizations
\* recorded as {'success': False, 'error': ...}).
\* levels[i]: implementation level of selected[i], in 1/LevelDenOf(p).
ResultOf(p, m, sel, lev, tc, tr) ==
    [method |-> m, kind |-> "result", selected |-> sel, levels |-> lev,
     total_cost |-> tc, total_reduction |-> tr,
     budget_utilization |-> RDiv(tc, RInt(p.budget)),
     target_achievement |-> RDiv(tr, RInt(p.target))]

NoResult(m, k) ==
    [method |-> m, kind |-> k, selected |-> <<>>, levels |-> <<>>,
     total_cost |-> RInt(0), total_reduction |-> RInt(0),
     budget_utilization |-> RInt(0), target_achievement |-> RInt(0)]

Failed(m) == NoResult(m, "failed")
Raised(m) == NoResult(m, "raised")

\* result.get('success', True)
Success(r) == r.kind = "result"

cost_effectiveness_optimization(p) ==
    LET g == GreedyLoop(p, sorted_indices(p), 1,
                 [selected |-> <<>>, total_cost |-> 0, total_reduction |-> 0])
    IN ResultOf(p, "cost_effectiveness", g.selected,
                [i \in DOMAIN g.selected |-> LevelDenOf(p)],
                RInt(g.total_cost), RInt(g.total_reduction))


(***************************************************************************)
(* linear_programming_optimization                                         *)
(***************************************************************************)
LevelVectors(p) == [1..num_initiatives(p) -> Levels(p)]

\* sum(x * v) in units of 1/LevelDenOf(p)
RECURSIVE Dot(_, _, _)
Dot(x, v, k) == IF k = 0 THEN 0 ELSE x[k] * v[k] + Dot(x, v, k - 1)

Weighted(p, x, v) == Dot(x, v, num_initiatives(p))

\* A_ub x <= b_ub: sum(costs * x) <= budget
LPFeasible(p, x) == Weighted(p, x, costs(p)) <= p.budget * LevelDenOf(p)

\* linprog(c = -impacts, ...): the solutions the solver may return are the
\* feasible level vectors of maximal sum(impacts * x)
LPOptimal(p) ==
    LET F == {x \in LevelVectors(p) : LPFeasible(p, x)}
        V == {Weighted(p, x, impacts(p)) : x \in F}
        best == CHOOSE m \in V : \A w \in V : w <= m
    IN {x \in F : Weighted(p, x, impacts(p)) = best}

\* the positions i with x[i] satisfying keep(i), in increasing order
RECURSIVE Positions(_, _, _)
Positions(x, k, n) ==
    IF k > n THEN <<>>
    ELSE IF x[k] THEN <<k>> \o Positions(x, k + 1, n)
    ELSE Positions(x, k + 1, n)

\* if level > 0.01
LevelReported(p, lv) == lv * 100 > LevelDenOf(p)

LPResult(p, x) ==
    LET n == num_initiatives(p)
        sel == Positions([i \in 1..n |-> LevelReported(p, x[i])], 1, n)
    IN ResultOf(p, "linear_programming", sel,
                [i \in DOMAIN sel |-> x[sel[i]]],
                R(Weighted(p, x, costs(p)), LevelDenOf(p)),
                R(Weighted(p, x, impacts(p)), LevelDenOf(p)))

\* Every way the call can end: the solver's solution, result.success False,
\* or (no initiatives: linprog on an empty problem) an exception.
linear_programming_optimization(p) ==
    IF p = NoProblem THEN {Raised("linear_programming")}
    ELSE IF num_initiatives(p) = 0
    THEN {Raised("linear_programming"), LPResult(p, <<>>)}
    ELSE {LPResult(p, x) : x \in LPOptimal(p)} \cup {Failed("linear_programming")}

(***************************************************************************)
(* genetic_algorithm_optimization / multi_objective_optimization           *)
(***************************************************************************)
\* x_binary = (x > 0.5).astype(int)
BinaryVectors(p) == [1..num_initiatives(p) -> {0, 1}]

\* objective_function(x): -total_reduction, plus 1000 * overage over budget
objective_function(p, b) ==
    LET total_cost == Weighted(p, b, costs(p))
        total_reduction == Weighted(p, b, impacts(p))
    IN IF total_cost > p.budget
       THEN -total_reduction + PenaltyFactor * (total_cost - p.budget)
       ELSE -total_reduction

\* differential_evolution minimises the objective over the binary selections
\* (seed fixed, which minimiser it ends on is not known to the model)
GAMinimisers(p) ==
    {b \in BinaryVectors(p) :
        \A c \in BinaryVectors(p) : objective_function(p, b) <= objective_function(p, c)}

\* (mutant) the totals taken over all initiatives, selected or not
BinaryResultTotalsOfAll(p, m, b) ==
    LET n == num_initiatives(p)
        sel == Positions([i \in 1..n |-> b[i] = 1], 1, n)
    IN ResultOf(p, m, sel, [i \in DOMAIN sel |-> LevelDenOf(p)],
                RInt(SumSeq(costs(p))), RInt(SumSeq(impacts(p))))

BinaryResult(p, m, b) ==
    LET n == num_initiatives(p)
        sel == Positions([i \in 1..n |-> b[i] = 1], 1, n)
    IN ResultOf(p, m, sel, [i \in DOMAIN sel |-> LevelDenOf(p)],
                RInt(Weighted(p, b, costs(p))), RInt(Weighted(p, b, impacts(p))))

\* differential_evolution raises on empty bounds; result.success is False
\* when maxiter is reached before the population converges
genetic_algorithm_optimization(p) ==
    IF p = NoProblem \/ num_initiatives(p) = 0
    THEN {Raised("genetic_algorithm")}
    ELSE {BinaryResult(p, "genetic_algorithm", b) : b \in GAMinimisers(p)}
         \cup {Failed("genetic_algorithm")}

MOWithinBudget(p, b) == Weighted(p, b, costs(p)) <= p.budget

\* multi_objective(x) for a selection within budget (sum(impacts) > 0; risk
\* scores are in tenths):
\*   -(0.6 * norm_reduction) + 0.3 * norm_cost + 0.1 * norm_risk
\* multiplied by 100 * sum(impacts) * budget * n.  The normalised terms do
\* not change when costs and budget (or all impacts) are divided by a common
\* divisor, which keeps the products small.
multi_objective(p, b) ==
    LET n == num_initiatives(p)
        gc == GcdSeq(costs(p), p.budget)
        gi == GcdSeq(impacts(p), 0)
        budget == p.budget \div gc
        total_cost == Weighted(p, b, costs(p)) \div gc
        total_reduction == Weighted(p, b, impacts(p)) \div gi
        sum_impacts == SumSeq(impacts(p)) \div gi
    IN - 60 * total_reduction * budget * n
       + 30 * total_cost * sum_impacts * n
       + Weighted(p, b, risks(p)) * sum_impacts * budget

\* multi_objective(b) <= multi_objective(c).  Over budget the objective is
\* 1e6, above every value within budget (at most 0.3 + 0.1).
MOLeq(p, b, c) ==
    IF MOWithinBudget(p, b)
    THEN (~MOWithinBudget(p, c)) \/ multi_objective(p, b) <= multi_objective(p, c)
    ELSE ~MOWithinBudget(p, c)

\* sum(impacts) = 0 makes norm_reduction 0/0 = nan for every selection within
\* budget: the search is then unguided among them
MOMinimisers(p) ==
    IF SumSeq(impacts(p)) = 0
    THEN {b \in BinaryVectors(p) : MOWithinBudget(p, b)}
    ELSE {b \in BinaryVectors(p) : \A c \in BinaryVectors(p) : MOLeq(p, b, c)}

multi_objective_optimization(p) ==
    IF p = NoProblem \/ num_initiatives(p) = 0
    THEN {Raised("multi_objective")}
    ELSE {BinaryResult(p, "multi_objective", b) : b \in MOMinimisers(p)}
         \cup {Failed("multi_objective")}

\* the greedy strategy reads self.costs, which exists only once a problem
\* has been defined
cost_effectiveness_outcomes(p) ==
    IF p = NoProblem THEN {Raised("cost_effectiveness")}
    ELSE {cost_effectiveness_optimization(p)}


(***************************************************************************)
(* run_all_optimizations                                                   *)
(***************************************************************************)
\* score = target_achievement * 0.7 + (1 - budget_utilization) * 0.3
Score(r) ==
    RAdd(RMul(R(7, 10), r.target_achievement),
         RMul(R(3, 10), RSub(RInt(1), r.budget_utilization)))

NoBest == [method |-> "None", score |-> RInt(0), set |-> FALSE]

\* (mutant) the success test around the score comparison dropped
UpdatesBestAnyResult(r, best) == (~best.set) \/ RLt(best.score, Score(r))

\* (mutant) score >= best_score: the latest of equal scores wins
UpdatesBestOnTies(r, best) == Success(r) /\ ((~best.set) \/ RLe(best.score, Score(r)))

\* if result.get('success', True): ... if score > best_score (from -inf)
UpdatesBest(r, best) == Success(r) /\ ((~best.set) \/ RLt(best.score, Score(r)))

\* The loop over methods: each strategy runs inside its own try/except, so
\* an outcome of kind "raised" is recorded and the loop goes on.
\* outcomes[k] is how the k-th strategy ends.
RECURSIVE MethodLoop(_, _, _)
MethodLoop(outcomes, k, acc) ==
    IF k > Len(outcomes) THEN acc
    ELSE LET r == outcomes[k] IN
         MethodLoop(outcomes, k + 1,
             [results |-> Append(acc.results, r),
              best |-> IF UpdatesBest(r, acc.best)
                       THEN [method |-> r.method, score |-> Score(r), set |-> TRUE]
                       ELSE acc.best])

\* _compare_methods: one row per result with result.get('success', True)
InComparison(r) == Success(r)

_compare_methods(results) ==
    {[method |-> r.method,
      total_reduction |-> r.total_reduction,
      total_cost |-> r.total_cost,
      budget_utilization |-> r.budget_utilization,
      target_achievement |-> r.target_achievement,
      num_initiatives |-> Len(r.selected)] :
        r \in {x \in Range(results) : InComparison(x)}}

\* _generate_recommendations: the method of highest reduction (> 0, first
\* wins) and the methods using less than 80% of the budget
RECURSIVE MaxReductionLoop(_, _, _)
MaxReductionLoop(results, k, acc) ==
    IF k > Len(results) THEN acc
    ELSE LET r == results[k] IN
         IF Success(r) /\ RLt(acc.max_reduction, r.total_reduction)
         THEN MaxReductionLoop(results, k + 1,
                  [method |-> r.method, max_reduction |-> r.total_reduction])
         ELSE MaxReductionLoop(results, k + 1, acc)

_generate_recommendations(results) ==
    [max_reduction_method |->
        MaxReductionLoop(results, 1,
            [method |-> "None", max_reduction |-> RInt(0)]).method,
     under_used |->
        {r.method : r \in {x \in Range(results) :
            Success(x) /\ RLt(x.budget_utilization, R(8, 10))}}]

NoSummary ==
    [ran |-> FALSE, optimization_results |-> <<>>, best_method |-> "None",
     best_score |-> RInt(0), comparison |-> {},
     recommendations |-> [max_reduction_method |-> "None", under_used |-> {}]]

run_all_optimizations(outcomes) ==
    LET loop == MethodLoop(outcomes, 1, [results |-> <<>>, best |-> NoBest])
    IN [ran |-> TRUE,
        optimization_results |-> loop.results,
        best_method |-> loop.best.method,
        best_score |-> loop.best.score,
        comparison |-> _compare_methods(loop.results),
        recommendations |-> _generate_recommendations(loop.results)]

(***************************************************************************)
(* CarbonScenarioModeler: inputs                                           *)
(***************************************************************************)
MaxTimeline == 2        \* largest drawn scenario_timeline
MaxClockTicks == 1      \* how often the calendar year advances during a run
MaxInterventions == 2   \* interventions per drawn list
FirstYear == 2024       \* calendar year when the modeler is constructed
BaseEmissions == 1000   \* the non-zero drawn annual_emissions
MaxCalls == 3           \* modeler calls per run
CarbonPrice == 50

GrowthRates == {RInt(0), R(2, 10)}
EfficiencyRates == {R(1, 10)}
DefaultUncertainty == R(1, 10)

\* the fixture of tests/test_ml_models.py (sample_company_data), on the
\* drawn timelines
SampleCompanyData ==
    {[annual_emissions |-> 10000, business_growth_rate |-> R(5, 100),
      natural_efficiency |-> R(1, 100), scenario_timeline |-> t] :
        t \in 1..MaxTimeline}

CompanyProfiles ==
    {[annual_emissions |-> e, business_growth_rate |-> g,
      natural_efficiency |-> f, scenario_timeline |-> t] :
        e \in {0, BaseEmissions}, g \in GrowthRates,
        f \in EfficiencyRates, t \in 1..MaxTimeline}
    \cup SampleCompanyData

\* An intervention dict as the caller passes it; has_start_year and
\* has_uncertainty say whether the key is present.
LedRetrofit ==
    [name |-> "led", has_start_year |-> FALSE, start_year |-> 0,
     implementation_duration |-> 1, annual_reduction |-> R(1, 10),
     one_time_reduction |-> RInt(-5), cost |-> 100000,
     effectiveness_decay |-> RInt(0),
     has_uncertainty |-> TRUE, uncertainty |-> RInt(0)]
SolarRoof ==
    [name |-> "solar", has_start_year |-> TRUE, start_year |-> FirstYear,
     implementation_duration |-> 2, annual_reduction |-> R(1, 5),
     one_time_reduction |-> RInt(50), cost |-> 6000,
     effectiveness_decay |-> R(1, 10),
     has_uncertainty |-> TRUE, uncertainty |-> RInt(0)]
FleetSwitch ==
    [name |-> "fleet", has_start_year |-> FALSE, start_year |-> 0,
     implementation_duration |-> 1, annual_reduction |-> R(3, 2),
     one_time_reduction |-> RInt(0), cost |-> 0,
     effectiveness_decay |-> RInt(0),
     has_uncertainty |-> FALSE, uncertainty |-> RInt(0)]
InterventionCatalogue == {LedRetrofit, SolarRoof, FleetSwitch}

ScenarioNames == {"plan"}
TargetReductions == {R(1, 2)}
TargetYears == FirstYear..(FirstYear + MaxClockTicks + 1)

\* Values np.random.normal(1.0, uncertainty) may return when uncertainty > 0
NoiseDraws == {R(1, 2), RInt(1)}

(***************************************************************************)
(* CarbonScenarioModeler: records                                          *)
(***************************************************************************)
NoProjectionSummary ==
    [total_cumulative |-> RInt(0), final_year_emissions |-> RInt(0),
     emission_change_total |-> RInt(0), total_intervention_cost |-> 0,
     total_reduction_achieved |-> RInt(0)]

NoProjections ==
    [years |-> <<>>, emissions |-> <<>>, cumulative_emissions |-> <<>>,
     emission_intensity |-> <<>>, summary |-> NoProjectionSummary,
     has_intervention_effects |-> FALSE, intervention_effects |-> <<>>]

NeverPaysBack == [finite |-> FALSE, year |-> 0]

\* impact_metrics == {}
NoImpact ==
    [computed |-> FALSE, total_emission_reduction |-> RInt(0),
     reduction_percentage |-> RInt(0), total_intervention_cost |-> 0,
     cost_per_tonne_co2 |-> RInt(0), annual_reductions |-> <<>>,
     payback_period |-> NeverPaysBack]

NoParameters ==
    [current_emissions |-> RInt(0), business_growth_rate |-> RInt(0),
     efficiency_improvement |-> RInt(0)]

\* self.baseline_scenario = None
NoBaseline ==
    [name |-> "None", type |-> "none", parameters |-> NoParameters,
     timeline_years |-> 0, interventions |-> <<>>,
     projections |-> NoProjections, impact_metrics |-> NoImpact]

\* self.scenarios = {}
NoScenarios == [n \in {} |-> NoBaseline]

Returned(v) == [raised |-> "None", value |-> v]
Raises(e) == [raised |-> e, value |-> NoBaseline]

NoScenarioCall ==
    [call |-> "None", outcome |-> "None", name |-> "None",
     target_reduction |-> RInt(0), target_year |-> 0, current_year |-> 0,
     annual_emissions |-> 0]

(***************************************************************************)
(* CarbonScenarioModeler._project_emissions                                *)
(***************************************************************************)
\* A Python list: the elements are computed once, when the list is built
List(f) == SubSeq(f, 1, Len(f))

Last(xs) == xs[Len(xs)]

\* cumulative += annual, appended year by year
RECURSIVE RunningTotalFrom(_, _)
RunningTotalFrom(xs, total) ==
    IF xs = <<>> THEN <<>>
    ELSE <<RAdd(total, Head(xs))>>
             \o RunningTotalFrom(Tail(xs), RAdd(total, Head(xs)))

RunningTotal(xs) == RunningTotalFrom(xs, RInt(0))

\* (last - first) / first * 100; raises ZeroDivisionError when first = 0,
\* which the callers test beforehand
PercentChange(first, last) == RMul(RDiv(RSub(last, first), first), RInt(100))

\* (mutant) the exponent counted from 1: year 0 already grown
ProjectedEmissionsFromYearOne(params, timeline_years) ==
    List([i \in 1..(timeline_years + 1) |->
        RMul(params.current_emissions,
             RPow(RAdd(RInt(1), RSub(params.business_growth_rate,
                                     params.efficiency_improvement)),
                  i))])

\* current_emissions * (1 + net_growth_rate) ** year, year = 0..timeline
ProjectedEmissions(params, timeline_years) ==
    List([i \in 1..(timeline_years + 1) |->
        RMul(params.current_emissions,
             RPow(RAdd(RInt(1), RSub(params.business_growth_rate,
                                     params.efficiency_improvement)),
                  i - 1))])

\* annual_emissions / business_growth, business_growth *= 1 + growth_rate
EmissionIntensity(params, emissions) ==
    List([i \in DOMAIN emissions |->
        RDiv(emissions[i],
             RPow(RAdd(RInt(1), params.business_growth_rate), i))])

ProjectionSummary(emissions, cumulative, cost, achieved) ==
    [total_cumulative |-> Last(cumulative),
     final_year_emissions |-> Last(emissions),
     emission_change_total |-> PercentChange(emissions[1], Last(emissions)),
     total_intervention_cost |-> cost,
     total_reduction_achieved |-> achieved]

BaselineProjections(params, emissions, now) ==
    IF emissions[1].n = 0
    THEN Raises("ZeroDivisionError")
    ELSE Returned(
         [years |-> List([i \in DOMAIN emissions |-> now + i - 1]),
          emissions |-> emissions,
          cumulative_emissions |-> RunningTotal(emissions),
          emission_intensity |-> EmissionIntensity(params, emissions),
          summary |-> ProjectionSummary(emissions, RunningTotal(emissions),
                                        0, RInt(0)),
          has_intervention_effects |-> FALSE,
          intervention_effects |-> <<>>])

_project_emissions(scenario, now) ==
    BaselineProjections(scenario.parameters,
                        ProjectedEmissions(scenario.parameters,
                                           scenario.timeline_years),
                        now)

(***************************************************************************)
(* CarbonScenarioModeler._validate_interventions                           *)
(***************************************************************************)
Clamp01(x) == RMax(RInt(0), RMin(RInt(1), x))

ValidatedIntervention(intervention, now) ==
    [name |-> intervention.name,
     start_year |-> IF intervention.has_start_year
                    THEN intervention.start_year ELSE now + 1,
     implementation_duration |-> intervention.implementation_duration,
     annual_reduction |-> Clamp01(intervention.annual_reduction),
     one_time_reduction |-> RMax(RInt(0), intervention.one_time_reduction),
     cost |-> intervention.cost,
     effectiveness_decay |-> intervention.effectiveness_decay,
     uncertainty |-> IF intervention.has_uncertainty
                     THEN Clamp01(intervention.uncertainty)
                     ELSE DefaultUncertainty]

_validate_interventions(interventions, now) ==
    List([k \in DOMAIN interventions |->
             ValidatedIntervention(interventions[k], now)])

(***************************************************************************)
(* CarbonScenarioModeler._project_emissions_with_interventions             *)
(***************************************************************************)
\* The draws of np.random.normal, one per intervention and active year: a
\* draw with uncertainty 0 is exactly 1.0, and no draw is made before the
\* intervention starts.
NoiseFor(interventions, timeline_years, now) ==
    {noise \in [DOMAIN interventions ->
                    [1..(timeline_years + 1) -> NoiseDraws]] :
        \A k \in DOMAIN interventions, i \in 1..(timeline_years + 1) :
            (\/ interventions[k].uncertainty.n = 0
             \/ i - 1 < interventions[k].start_year - now)
                => noise[k][i] = RInt(1)}

\* (mutant) the ramp counted from 0: nothing in the first year
PlannedEffectivenessRampFromZero(intervention, years_since_start) ==
    IF years_since_start < intervention.implementation_duration
    THEN R(years_since_start, intervention.implementation_duration)
    ELSE RPow(RSub(RInt(1), intervention.effectiveness_decay),
              years_since_start - intervention.implementation_duration)

PlannedEffectiveness(intervention, years_since_start) ==
    IF years_since_start < intervention.implementation_duration
    THEN R(years_since_start + 1, intervention.implementation_duration)
    ELSE RPow(RSub(RInt(1), intervention.effectiveness_decay),
              years_since_start - intervention.implementation_duration)

Effectiveness(intervention, years_since_start, draw) ==
    Clamp01(RMul(PlannedEffectiveness(intervention, years_since_start), draw))

\* absolute_reduction of one intervention in year (0-based)
AbsoluteReduction(intervention, baseline_emissions, year, now, draw) ==
    IF year >= intervention.start_year - now
    THEN RAdd(RMul(baseline_emissions[year + 1],
                   RMul(intervention.annual_reduction,
                        Effectiveness(intervention,
                                      year - (intervention.start_year - now),
                                      draw))),
              IF year = intervention.start_year - now
              THEN intervention.one_time_reduction ELSE RInt(0))
    ELSE RInt(0)

AnnualImpact(intervention, baseline_emissions, now, draws) ==
    List([i \in DOMAIN baseline_emissions |->
        AbsoluteReduction(intervention, baseline_emissions, i - 1, now,
                          draws[i])])

EffectRecord(intervention, annual_impact, now) ==
    [name |-> intervention.name,
     annual_impact |-> annual_impact,
     cumulative_impact |-> RunningTotal(annual_impact),
     costs |-> List([i \in DOMAIN annual_impact |->
                   IF i - 1 = intervention.start_year - now
                   THEN intervention.cost ELSE 0])]

InterventionEffect(intervention, baseline_emissions, now, draws) ==
    EffectRecord(intervention,
                 AnnualImpact(intervention, baseline_emissions, now, draws),
                 now)

InterventionEffects(interventions, baseline_emissions, now, noise) ==
    List([k \in DOMAIN interventions |->
        InterventionEffect(interventions[k], baseline_emissions, now,
                           noise[k])])

\* sum over the effects of annual_impact[i]
RECURSIVE ImpactInYear(_, _)
ImpactInYear(effects, i) ==
    IF effects = <<>> THEN RInt(0)
    ELSE RAdd(Head(effects).annual_impact[i], ImpactInYear(Tail(effects), i))

RECURSIVE TotalCosts(_)
TotalCosts(effects) ==
    IF effects = <<>> THEN 0
    ELSE SumSeq(Head(effects).costs) + TotalCosts(Tail(effects))

RECURSIVE TotalReductionAchieved(_)
TotalReductionAchieved(effects) ==
    IF effects = <<>> THEN RInt(0)
    ELSE RAdd(Last(Head(effects).cumulative_impact),
              TotalReductionAchieved(Tail(effects)))

\* projections['emissions'][year] -= absolute_reduction
ReducedEmissions(baseline_emissions, effects) ==
    List([i \in DOMAIN baseline_emissions |->
        RSub(baseline_emissions[i], ImpactInYear(effects, i))])

\* A recalculation that leaves the first year out of the running total.
RecalculatedCumulativeAfterFirstYear(emissions) ==
    <<RInt(0)>> \o RunningTotal(Tail(emissions))

\* "Recalculate cumulative emissions"
RecalculatedCumulative(emissions) == RunningTotal(emissions)

ReducedProjections(base, effects, emissions) ==
    IF emissions[1].n = 0
    THEN Raises("ZeroDivisionError")
    ELSE Returned(
         [years |-> base.years,
          emissions |-> emissions,
          cumulative_emissions |-> RecalculatedCumulative(emissions),
          emission_intensity |-> base.emission_intensity,
          summary |-> ProjectionSummary(emissions,
                                        RecalculatedCumulative(emissions),
                                        TotalCosts(effects),
                                        TotalReductionAchieved(effects)),
          has_intervention_effects |-> TRUE,
          intervention_effects |-> effects])

ApplyEffects(base, effects) ==
    ReducedProjections(base, effects, ReducedEmissions(base.emissions, effects))

ApplyInterventions(baseline_projections, scenario, now, noise) ==
    IF baseline_projections.raised # "None" THEN baseline_projections
    ELSE ApplyEffects(baseline_projections.value,
                      InterventionEffects(scenario.interventions,
                                          baseline_projections.value.emissions,
                                          now, noise))

_project_emissions_with_interventions(scenario, now, noise) ==
    ApplyInterventions(_project_emissions(scenario, now), scenario, now, noise)

(***************************************************************************)
(* CarbonScenarioModeler._calculate_scenario_impact                        *)
(***************************************************************************)
RECURSIVE PaybackLoop(_, _, _, _)
PaybackLoop(projections, total_cost, i, cumulative_savings) ==
    IF i > Len(projections.emissions) THEN NeverPaysBack
    ELSE IF RLe(RInt(total_cost),
                RAdd(cumulative_savings,
                     RMul(ImpactInYear(projections.intervention_effects, i),
                          RInt(CarbonPrice))))
    THEN [finite |-> TRUE, year |-> i - 1]
    ELSE PaybackLoop(projections, total_cost, i + 1,
                     RAdd(cumulative_savings,
                          RMul(ImpactInYear(projections.intervention_effects, i),
                               RInt(CarbonPrice))))

_calculate_payback_period(scenario) ==
    IF ~scenario.projections.has_intervention_effects THEN NeverPaysBack
    ELSE PaybackLoop(scenario.projections,
                     scenario.projections.summary.total_intervention_cost,
                     1, RInt(0))

AnnualReductions(baseline_emissions, scenario_emissions) ==
    List([i \in DOMAIN baseline_emissions |->
             RSub(baseline_emissions[i], scenario_emissions[i])])

ImpactMetrics(scenario, baseline_proj, total_reduction, total_cost) ==
    [computed |-> TRUE,
     total_emission_reduction |-> total_reduction,
     reduction_percentage |->
         RMul(RDiv(total_reduction, baseline_proj.summary.total_cumulative),
              RInt(100)),
     total_intervention_cost |-> total_cost,
     cost_per_tonne_co2 |->
         IF total_reduction.n > 0
         THEN RDiv(RInt(total_cost), total_reduction) ELSE RInt(0),
     annual_reductions |->
         AnnualReductions(baseline_proj.emissions,
                          scenario.projections.emissions),
     payback_period |-> _calculate_payback_period(scenario)]

\* Any exception inside is caught and {} returned: a zero baseline total
\* (ZeroDivisionError), a scenario shorter than the baseline (IndexError).
_calculate_scenario_impact(scenario, baseline) ==
    IF baseline = NoBaseline THEN NoImpact
    ELSE IF baseline.projections.summary.total_cumulative.n = 0 THEN NoImpact
    ELSE IF Len(scenario.projections.emissions)
                < Len(baseline.projections.emissions)
    THEN NoImpact
    ELSE ImpactMetrics(scenario, baseline.projections,
                       RSub(baseline.projections.summary.total_cumulative,
                            scenario.projections.summary.total_cumulative),
                       scenario.projections.summary.total_intervention_cost)

(***************************************************************************)
(* CarbonScenarioModeler: public methods                                   *)
(***************************************************************************)
NewScenario(name, type, parameters, timeline_years, interventions) ==
    [name |-> name, type |-> type, parameters |-> parameters,
     timeline_years |-> timeline_years, interventions |-> interventions,
     projections |-> NoProjections, impact_metrics |-> NoImpact]

WithProjections(scenario, projected) ==
    IF projected.raised # "None" THEN projected
    ELSE Returned([scenario EXCEPT !.projections = projected.value])

ProjectBaseline(baseline, now) ==
    WithProjections(baseline, _project_emissions(baseline, now))

create_baseline_scenario(company_data, now) ==
    ProjectBaseline(
        NewScenario("Business as Usual", "baseline",
                    [current_emissions |-> RInt(company_data.annual_emissions),
                     business_growth_rate |-> company_data.business_growth_rate,
                     efficiency_improvement |-> company_data.natural_efficiency],
                    company_data.scenario_timeline, <<>>),
        now)

\* "if not self.baseline_scenario", with the check removed
BaselineCheckRemoved(baseline) == FALSE

\* "if not self.baseline_scenario"
BaselineMissing(baseline) == baseline = NoBaseline

WithImpact(projected, baseline) ==
    IF projected.raised # "None" THEN projected
    ELSE Returned([projected.value EXCEPT !.impact_metrics =
                      _calculate_scenario_impact(projected.value, baseline)])

ProjectScenario(scenario, baseline, now, noise) ==
    WithImpact(
        WithProjections(scenario,
            _project_emissions_with_interventions(scenario, now, noise)),
        baseline)

create_intervention_scenario(baseline, name, interventions, now, noise) ==
    IF BaselineMissing(baseline) THEN Raises("ValueError")
    ELSE ProjectScenario(
             NewScenario(name, "intervention", baseline.parameters,
                         baseline.timeline_years,
                         _validate_interventions(interventions, now)),
             baseline, now, noise)

\* The class defines no _project_target_scenario (and no
\* _analyze_target_feasibility): once both checks pass, looking the method
\* up raises AttributeError, which the handler logs and re-raises before
\* anything is stored or returned.
create_target_scenario(baseline, target_reduction, target_year, now) ==
    IF BaselineMissing(baseline) THEN Raises("ValueError")
    ELSE IF target_year - now <= 0 THEN Raises("ValueError")
    ELSE Raises("AttributeError")

\* self.scenarios[name] = scenario
Store(scenarios_, name, scenario) ==
    [n \in DOMAIN scenarios_ \cup {name} |->
        IF n = name THEN scenario ELSE scenarios_[n]]

\* a dict keeps its keys in insertion order; assigning to a key it already
\* has leaves the key where it is
KeysAfterStore(scenarios_, order, name) ==
    IF name \in DOMAIN scenarios_ THEN order ELSE Append(order, name)

(***************************************************************************)
(* EmissionAnomalyDetector                                                 *)
(* The fitted estimators are not modelled: IsolationForest.predict, the    *)
(* z-score / IQR tests per feature column and the rolling, trend and       *)
(* seasonal tests are oracles that may return any verdict per record.      *)
(* What is modelled is which verdicts detect_anomalies asks for and how    *)
(* it combines them.                                                       *)
(***************************************************************************)
MaxBatch == 2       \* records per batch of emission data

EmissionReadings == {100, 900}
Batches == SeqsUpTo(EmissionReadings, MaxBatch)
Verdicts(n) == [1..n -> BOOLEAN]

\* The detectors train_all_detectors stores in self.models, in order
TrainedDetectors == <<"isolation_forest", "statistical", "time_series">>

\* The detectors detect_anomalies looks up in self.models, in order
ConsultedDetectors == <<"isolation_forest", "statistical">>

\* self.models = {}
NoDetectors == [keys |-> {}, trained_on |-> <<>>, combined_anomalies |-> <<>>]

NoDetection ==
    [call |-> "None", outcome |-> "None", data |-> <<>>, unfit |-> {},
     anomalous_records |-> <<>>, total_anomalies |-> 0,
     detection_methods |-> [m \in {} |-> <<>>]]

AnomCall(call, outcome, data) ==
    [NoDetection EXCEPT !.call = call, !.outcome = outcome, !.data = data]

\* Which of the three train_* methods raise on a frame (each logs and
\* re-raises whatever its fit raised, e.g. train_time_series_detector on a
\* frame without a 'date' column)
DetectorFailures == SUBSET Range(TrainedDetectors)

\* train_all_detectors: the three training results under their keys; of the
\* time-series result the per-record combined_anomalies list is kept, with
\* the records it is about (the training frame, in date order).
\* Fitting on an empty frame raises.  The three train_* calls sit in one try
\* block: the first one that raises ends the call, before self.models and
\* self.is_trained are assigned.
train_all_detectors(emission_data, time_series_verdicts, unfit) ==
    IF emission_data = <<>> THEN Raises("ValueError")
    ELSE IF unfit # {} THEN Raises("Exception")
    ELSE Returned([keys |-> Range(TrainedDetectors),
                   trained_on |-> emission_data,
                   combined_anomalies |-> time_series_verdicts])

\* results[method] = {'is_anomaly': ...} for the consulted detectors present
\* in self.models
DetectionResults(models, verdicts) ==
    [m \in Range(ConsultedDetectors) \cap models.keys |-> verdicts[m]]

\* np.all(all_anomalies, axis=0)
combined_anomalies_all(results, n) ==
    [i \in 1..n |-> \A m \in DOMAIN results : results[m][i]]

\* np.any(all_anomalies, axis=0)
combined_anomalies(results, n) ==
    [i \in 1..n |-> \E m \in DOMAIN results : results[m][i]]

DetectedBy(results, i) ==
    LET Flags(m) == m \in DOMAIN results /\ results[m][i]
    IN SelectSeq(ConsultedDetectors, Flags)

AnomalousRecords(results, anomaly_indices) ==
    [k \in DOMAIN anomaly_indices |->
        [index |-> anomaly_indices[k] - 1,
         detected_by |-> DetectedBy(results, anomaly_indices[k])]]

FinalResults(new_data, results, anomaly_indices) ==
    [call |-> "detect_anomalies", outcome |-> "ok", data |-> new_data,
     unfit |-> {},
     anomalous_records |-> AnomalousRecords(results, anomaly_indices),
     total_anomalies |-> Len(anomaly_indices),
     detection_methods |-> results]

CombineResults(new_data, results) ==
    IF DOMAIN results = {}
    THEN AnomCall("detect_anomalies", "ok", new_data)
    ELSE FinalResults(new_data, results,
                      Positions(combined_anomalies(results, Len(new_data)),
                                1, Len(new_data)))

\* verdicts: what the fitted isolation forest and the statistical tests
\* answer for each record of new_data.  Transforming an empty frame raises.
detect_anomalies(models, trained, new_data, verdicts) ==
    IF ~trained THEN AnomCall("detect_anomalies", "ValueError", new_data)
    ELSE IF new_data = <<>>
    THEN AnomCall("detect_anomalies", "ValueError", new_data)
    ELSE CombineResults(new_data, DetectionResults(models, verdicts))

(***************************************************************************)
(* EmissionForecaster                                                      *)
(* Fitting LinearRegression, ARIMA and Prophet is not modelled: a          *)
(* candidate either raises or yields a finite held-out test MAE, and a     *)
(* fitted model forecasts any finite values.                               *)
(***************************************************************************)
MaxMAE == 2           \* largest held-out test MAE drawn
MaxSteps == 2         \* largest forecast horizon
MaxPrediction == 2    \* largest predicted value drawn

ShortSeries == 10     \* days in a short emissions series
LongSeries == 40      \* days in a long emissions series
LongestLag == 30      \* create_features: "for lag in [1, 7, 30]"
WeeklyPeriod == 7     \* the weekly season: lag 7, rolling window 7

TestMAEs == 0..MaxMAE
\* Lengths of the daily series prepare_data returns
SeriesLengths == {0, ShortSeries, LongSeries}

\* create_features drops the first LongestLag rows (lag_30 is NaN there) and
\* train_test_split(test_size=0.2) needs two rows to leave one for training
MinLinearRows == LongestLag + 2
PredictionValues == (-1)..MaxPrediction

\* What fitting one model class on the series does: raise, or fit with a MAE
FitOutcomes ==
    {[raised |-> TRUE, test_mae |-> 0]}
        \cup {[raised |-> FALSE, test_mae |-> m] : m \in TestMAEs}

models_to_train == <<"linear", "arima", "prophet">>

\* What fitting each model class can do on a series of n days: nothing fits
\* an empty series, LinearRegression needs MinLinearRows days
FitsOn(n) ==
    {fits \in [Range(models_to_train) -> FitOutcomes] :
        /\ n = 0 => \A m \in Range(models_to_train) : fits[m].raised
        /\ n < MinLinearRows => fits["linear"].raised}

\* The families whose own model class was not fitted: its fit raised, or
\* (ARIMA, Prophet) the library is missing
FailedFamilies(fits, advanced_available) ==
    {m \in Range(models_to_train) :
        fits[m].raised \/ (m # "linear" /\ ~advanced_available)}

ModelClass(model_name) ==
    CASE model_name = "linear" -> "LinearRegression"
      [] model_name = "arima" -> "ARIMA"
      [] model_name = "prophet" -> "Prophet"

TrainingRaised == [raised |-> TRUE, model |-> "None", test_mae |-> 0]
Trained(model, mae) == [raised |-> FALSE, model |-> model, test_mae |-> mae]

train_linear_model(fits) ==
    IF fits["linear"].raised THEN TrainingRaised
    ELSE Trained("LinearRegression", fits["linear"].test_mae)

\* train_arima_model / train_prophet_model: the linear model when the
\* advanced libraries are missing or when fitting raises
train_advanced_model(model_name, fits, advanced_available) ==
    IF ~advanced_available THEN train_linear_model(fits)
    ELSE IF fits[model_name].raised THEN train_linear_model(fits)
    ELSE Trained(ModelClass(model_name), fits[model_name].test_mae)

train_func(model_name, fits, advanced_available) ==
    IF model_name = "linear" THEN train_linear_model(fits)
    ELSE train_advanced_model(model_name, fits, advanced_available)

\* float('inf')
Infinity == [finite |-> FALSE, value |-> 0]
Finite(v) == [finite |-> TRUE, value |-> v]

\* the last trained candidate always replaces the best one
ReplacesBest(test_mae, best_score) == TRUE

\* "if test_mae < best_score"
Improves(test_mae, best_score) ==
    ~best_score.finite \/ test_mae < best_score.value

NoTraining ==
    [models |-> [m \in {} |-> TrainingRaised], best_model |-> "None",
     best_score |-> Infinity]

\* results[model_name] = result
WithModel(models, model_name, result) ==
    [m \in DOMAIN models \cup {model_name} |->
        IF m = model_name THEN result ELSE models[m]]

Trains(acc, model_name, result) ==
    IF result.raised THEN acc
    ELSE [models |-> WithModel(acc.models, model_name, result),
          best_model |-> IF Improves(result.test_mae, acc.best_score)
                         THEN model_name ELSE acc.best_model,
          best_score |-> IF Improves(result.test_mae, acc.best_score)
                         THEN Finite(result.test_mae) ELSE acc.best_score]

RECURSIVE TrainLoop(_, _, _, _)
TrainLoop(names, fits, advanced_available, acc) ==
    IF names = <<>> THEN acc
    ELSE TrainLoop(Tail(names), fits, advanced_available,
                   Trains(acc, Head(names),
                          train_func(Head(names), fits, advanced_available)))

TrainingResults(training) ==
    IF DOMAIN training.models = {} THEN Raises("ValueError")
    ELSE Returned(training)

train_models(has_emissions, fits, advanced_available) ==
    IF ~has_emissions THEN Raises("ValueError")
    ELSE TrainingResults(TrainLoop(models_to_train, fits, advanced_available,
                                   NoTraining))

\* floor of the square root
ISqrt(v) == CHOOSE r \in 0..v : r * r <= v /\ (r + 1) * (r + 1) > v

\* n^2 times the population variance of xs
ScaledVariance(xs) ==
    Len(xs) * SumSeq([i \in DOMAIN xs |-> xs[i] * xs[i]])
        - SumSeq(xs) * SumSeq(xs)

\* margin = 1.96 * np.std(predictions); the square root is taken to the
\* integer below, so the margin is 0 exactly when the standard deviation is
Margin(predictions) ==
    R(196 * ISqrt(ScaledVariance(predictions)), 100 * Len(predictions))

\* (predictions + margin), as a lower bound
lower_bound_added(predictions, margin) ==
    [i \in DOMAIN predictions |-> RAdd(RInt(predictions[i]), margin)]

lower_bound(predictions, margin) ==
    [i \in DOMAIN predictions |-> RSub(RInt(predictions[i]), margin)]

upper_bound(predictions, margin) ==
    [i \in DOMAIN predictions |-> RAdd(RInt(predictions[i]), margin)]

_calculate_confidence_interval(predictions) ==
    [lower_bound |-> lower_bound(predictions, Margin(predictions)),
     upper_bound |-> upper_bound(predictions, Margin(predictions))]

NoForecast ==
    [call |-> "None", outcome |-> "None", predictions |-> <<>>,
     model_used |-> "None",
     has_emissions |-> FALSE, series_len |-> 0, failed |-> {},
     confidence_interval |-> [lower_bound |-> <<>>, upper_bound |-> <<>>]]

FcCall(call, outcome) == [NoForecast EXCEPT !.call = call, !.outcome = outcome]

\* The branch predict takes for self.best_model: the linear placeholder
\* draws from np.random.normal; the other two call methods that only their
\* own model class has.
CanForecast(best_model, model) ==
    \/ best_model = "linear"
    \/ best_model = "arima" /\ model = "ARIMA"
    \/ best_model = "prophet" /\ model = "Prophet"

predict(trained, training, forecast) ==
    IF ~trained THEN FcCall("predict", "ValueError")
    ELSE IF training.best_model \notin DOMAIN training.models
    THEN FcCall("predict", "KeyError")
    ELSE IF ~CanForecast(training.best_model,
                         training.models[training.best_model].model)
    THEN FcCall("predict", "AttributeError")
    ELSE [call |-> "predict", outcome |-> "ok", predictions |-> forecast,
          model_used |-> training.best_model,
          has_emissions |-> FALSE, series_len |-> 0, failed |-> {},
          confidence_interval |-> _calculate_confidence_interval(forecast)]

(***************************************************************************)
(* CarbonScenarioModeler.compare_scenarios                                 *)
(* scenario_names is None (every stored scenario) or a list of names; the  *)
(* net present value columns are not modelled.                             *)
(***************************************************************************)
ComparedNames == {"plan", "lean"}
ComparedInterventions == 1    \* interventions per compared scenario

\* comparison_metrics[name] of a scenario other than the baseline
ScenarioMetrics(scenario) ==
    [total_cost |-> scenario.projections.summary.total_intervention_cost,
     emission_reduction |->
         IF scenario.impact_metrics.computed
         THEN scenario.impact_metrics.total_emission_reduction ELSE RInt(0),
     cost_per_tonne |->
         IF scenario.impact_metrics.computed
         THEN scenario.impact_metrics.cost_per_tonne_co2 ELSE RInt(0)]

\* scenarios_to_compare without 'baseline': the stored scenarios whose name
\* is in scenario_names, in the dict's order
ScenariosToCompare(order, scenario_names) ==
    LET Named(n) == n \in scenario_names IN SelectSeq(order, Named)

\* sorted(scenarios, key=emission_reduction, reverse=True)[0], and
\* max(..., key=emission_reduction): the first of the largest
by_reduction_first(names, metrics) ==
    names[CHOOSE i \in DOMAIN names :
            \A j \in DOMAIN names :
                /\ RLe(metrics[names[j]].emission_reduction,
                       metrics[names[i]].emission_reduction)
                /\ j < i => RLt(metrics[names[j]].emission_reduction,
                                metrics[names[i]].emission_reduction)]

\* sorted(scenarios, key=total_cost)[0]: the first of the cheapest
by_cost_first(names, metrics) ==
    names[CHOOSE i \in DOMAIN names :
            \A j \in DOMAIN names :
                /\ metrics[names[i]].total_cost <= metrics[names[j]].total_cost
                /\ j < i => metrics[names[i]].total_cost
                                < metrics[names[j]].total_cost]

\* min(..., key=cost_per_tonne): the first of the smallest
most_efficient(names, metrics) ==
    names[CHOOSE i \in DOMAIN names :
            \A j \in DOMAIN names :
                /\ RLe(metrics[names[i]].cost_per_tonne,
                       metrics[names[j]].cost_per_tonne)
                /\ j < i => RLt(metrics[names[i]].cost_per_tonne,
                                metrics[names[j]].cost_per_tonne)]

TradeOff(statement, x, y) == [statement |-> statement, x |-> x, y |-> y]

\* "X achieves highest reduction but at higher cost than Y"
ReductionVsCost(x, y) ==
    IF x # y THEN <<TradeOff("highest_reduction_at_higher_cost", x, y)>>
    ELSE <<>>

\* "X offers best cost per tonne CO2 at $..."
BestCostPerTonne(cost_effective, metrics) ==
    IF cost_effective # <<>>
    THEN <<TradeOff("best_cost_per_tonne",
                    most_efficient(cost_effective, metrics), "None")>>
    ELSE <<>>

_analyze_trade_offs(names, metrics) ==
    IF Len(names) >= 2
    THEN ReductionVsCost(by_reduction_first(names, metrics),
                         by_cost_first(names, metrics))
         \o BestCostPerTonne(
                LET Priced(n) == metrics[n].cost_per_tonne.n > 0
                IN SelectSeq(names, Priced),
                metrics)
    ELSE <<>>

NoBestScenario == [highest_reduction |-> "None", most_cost_effective |-> "None"]

\* most_cost_effective: a cost per tonne of 0 counts as infinite; when every
\* scenario's is 0 the first scenario is the minimum
BestScenario(names, priced, metrics) ==
    IF names = <<>> THEN NoBestScenario
    ELSE [highest_reduction |-> by_reduction_first(names, metrics),
          most_cost_effective |->
              IF priced = <<>> THEN names[1]
              ELSE most_efficient(priced, metrics)]

NoComparison ==
    [called |-> FALSE, scenarios_compared |-> <<>>,
     comparison_metrics |-> [n \in {} |-> ScenarioMetrics(NoBaseline)],
     best_scenario |-> NoBestScenario, trade_offs |-> <<>>]

Comparison(names, metrics) ==
    [called |-> TRUE,
     scenarios_compared |-> names,
     comparison_metrics |-> metrics,
     best_scenario |->
         BestScenario(names,
                      LET Priced(n) == metrics[n].cost_per_tonne.n > 0
                      IN SelectSeq(names, Priced),
                      metrics),
     trade_offs |-> _analyze_trade_offs(names, metrics)]

\* scenarios_compared and comparison_metrics hold the baseline as well (all
\* its metrics but the emissions are 0); it takes no part in best_scenario
\* and trade_offs and is left out here.
compare_scenarios(scenarios_, order, scenario_names) ==
    Comparison(ScenariosToCompare(order, scenario_names),
               [n \in Range(ScenariosToCompare(order, scenario_names)) |->
                   ScenarioMetrics(scenarios_[n])])

CmpStart == comparison = NoComparison

(***************************************************************************)
(* ApprovalWorkflowService (esg/services/approval_service.py)              *)
(* One ESGReport row and its ESGApproval rows.  The audit and notification *)
(* services are not modelled.                                              *)
(***************************************************************************)
MaxSubmissions == 2       \* submit_for_approval calls per run
MaxRequestedLevel == 4    \* largest approval_level a caller passes

\* report.framework; "gri" has no entry in approval_workflows
ReportFrameworks == {"cdp", "tcfd", "eu_taxonomy", "gri"}

ApprovalActions == {"approve", "reject", "request_changes", "publish"}

\* workflow["levels"] of self.approval_workflows.get(framework): the
\* "level" of each configured level, or none
WorkflowLevels(framework) ==
    IF framework \in {"cdp", "tcfd", "eu_taxonomy"} THEN <<1, 2, 3>>
    ELSE <<>>

\* action + "d"
ActionD(action) ==
    CASE action = "approve" -> "approved"
      [] action = "reject" -> "rejectd"
      [] action = "request_changes" -> "request_changesd"
      [] OTHER -> "d"

ApprovalRow(level, status) == [approval_level |-> level, status |-> status]

ServiceResult(success, message) == [success |-> success, message |-> message]

NoServiceCall == ServiceResult(FALSE, "None")

\* what a service call leaves behind: the report, its approval rows and
\* the returned dict
Outcome(report_, rows, result) ==
    [report |-> report_, approvals |-> rows, result |-> result]

\* The report's status is committed first; the approval rows are added with
\* approver_id=None and committed next.  The column is declared
\* nullable=False: a database that checks it refuses the rows, the except
\* branch rolls them back and the report stays under review.
submit_for_approval(report_, rows, enforces) ==
    IF report_.status # "draft"
    THEN Outcome(report_, rows,
                 ServiceResult(FALSE, "Only draft reports can be submitted"))
    ELSE IF WorkflowLevels(report_.framework) = <<>>
    THEN Outcome(report_, rows,
                 ServiceResult(FALSE, "No approval workflow defined"))
    ELSE IF enforces
    THEN Outcome([report_ EXCEPT !.status = "under_review"], rows,
                 ServiceResult(FALSE, "IntegrityError"))
    ELSE Outcome([report_ EXCEPT !.status = "under_review"],
                 rows \o [k \in DOMAIN WorkflowLevels(report_.framework) |->
                             ApprovalRow(WorkflowLevels(report_.framework)[k],
                                         "pending")],
                 ServiceResult(TRUE, "Report submitted for approval"))

\* the rows .filter(approval_level == level, status == "pending") finds
PendingAt(rows, level) ==
    {i \in DOMAIN rows :
        rows[i].approval_level = level /\ rows[i].status = "pending"}

\* .first(): the row inserted first
FirstOf(indices) == CHOOSE i \in indices : \A j \in indices : i <= j

_handle_rejection(report_, rows) ==
    Outcome([report_ EXCEPT !.status = "rejected"],
            [i \in DOMAIN rows |->
                IF rows[i].status = "pending"
                THEN [rows[i] EXCEPT !.status = "cancelled"] ELSE rows[i]],
            ServiceResult(TRUE, "Report rejected"))

_handle_change_request(report_, rows) ==
    Outcome([report_ EXCEPT !.status = "draft"],
            [i \in DOMAIN rows |-> [rows[i] EXCEPT !.status = "reset"]],
            ServiceResult(TRUE, "Changes requested"))

\* if approval_level >= max_level: report.status = ReportStatus.APPROVED
_handle_approval(report_, rows, approval_level) ==
    IF approval_level >= Len(WorkflowLevels(report_.framework))
    THEN Outcome([report_ EXCEPT !.status = "approved"], rows,
                 ServiceResult(TRUE, "Report fully approved"))
    ELSE Outcome(report_, rows, ServiceResult(TRUE, "Level approved"))

\* the approval row updated, then the branch on the action
ProcessAction(report_, rows, approval_level, action) ==
    IF action = "reject" THEN _handle_rejection(report_, rows)
    ELSE IF action = "request_changes"
    THEN _handle_change_request(report_, rows)
    ELSE _handle_approval(report_, rows, approval_level)

process_approval(report_, rows, approval_level, action) ==
    IF action \notin {"approve", "reject", "request_changes"}
    THEN Outcome(report_, rows, ServiceResult(FALSE, "Invalid approval action"))
    ELSE IF report_.status # "under_review"
    THEN Outcome(report_, rows,
                 ServiceResult(FALSE, "Report is not under review"))
    ELSE IF PendingAt(rows, approval_level) = {}
    THEN Outcome(report_, rows,
                 ServiceResult(FALSE, "No pending approval found"))
    ELSE ProcessAction(report_,
                       [rows EXCEPT
                           ![FirstOf(PendingAt(rows, approval_level))].status
                               = ActionD(action)],
                       approval_level, action)

ApStart ==
    /\ db_enforces_not_null = FALSE
    /\ report = [status |-> "draft", framework |-> "cdp"]
    /\ approvals = <<>>
    /\ submissions = 0
    /\ apResult = NoServiceCall

(***************************************************************************)
(* RateLimiter (utils/rate_limiter.py)                                     *)
(* Time is counted in ticks, TicksPerMinute to the minute.  The whole body *)
(* of wait_if_needed, time.sleep included, runs inside "with self.lock".   *)
(***************************************************************************)
TicksPerMinute == 3     \* timedelta(minutes=1)
MaxLimit == 2           \* largest requests_per_minute
MaxTime == 7            \* the clock stops here

Threads == {"t1", "t2"}

NoLimiter == [requests_per_minute |-> 1, requests |-> <<>>, lock |-> "None"]

Outside == [pc |-> "outside", now |-> 0, wait_until |-> 0]

\* [req_time for req_time in self.requests if req_time > minute_ago]
RecentRequests(requests, now) ==
    LET Recent(req_time) == req_time > now - TicksPerMinute
    IN SelectSeq(requests, Recent)

\* min(self.requests)
oldest_request(requests) ==
    CHOOSE r \in Range(requests) : \A q \in Range(requests) : r <= q

\* len(self.requests) >= self.requests_per_minute
AtLimit(requests, requests_per_minute) == Len(requests) >= requests_per_minute

\* oldest_request + timedelta(minutes=1)
WaitUntil(requests) == oldest_request(requests) + TicksPerMinute

LimStart ==
    /\ clock = 0
    /\ limiter = NoLimiter
    /\ callers = [t \in Threads |-> Outside]
    /\ returned = <<>>

(***************************************************************************)
(* The statistical detector on the 'emissions' feature column              *)
(* train_statistical_detector fixes the column's IQR bounds;               *)
(* detect_anomalies scores every record of a batch of new data with the    *)
(* z-score test and the IQR test.  Values are integers; the quartiles are  *)
(* kept in quarters and the bounds in eighths, so both are exact.          *)
(***************************************************************************)
MaxReading == 3         \* largest 'emissions' value of a record
MaxTrainRows == 3       \* records in a training frame
MaxScoredRows == 2      \* records in a short batch of new data
StableRows == 10        \* equal records at the head of a long batch
ZScoreThreshold == 3    \* 'z_score': 3.0

ColumnValues == 0..MaxReading
TrainingColumns == SeqsUpTo(ColumnValues, MaxTrainRows) \ {<<>>}

\* a long batch: StableRows equal records, then one more record
LongColumns ==
    {[i \in 1..(StableRows + 1) |-> IF i <= StableRows THEN a ELSE b] :
        a \in ColumnValues, b \in ColumnValues}

NewColumns == (SeqsUpTo(ColumnValues, MaxScoredRows) \ {<<>>}) \cup LongColumns

\* the column's values in ascending order, from value v on
RECURSIVE Ascending(_, _)
Ascending(data, v) ==
    IF v > MaxReading THEN <<>>
    ELSE [i \in 1..Cardinality({k \in DOMAIN data : data[k] = v}) |-> v]
             \o Ascending(data, v + 1)

\* 4 * data.quantile(quarters / 4), linear interpolation between the two
\* neighbours of position (n - 1) * quarters / 4
Quantile4(sorted, quarters) ==
    4 * sorted[((Len(sorted) - 1) * quarters) \div 4 + 1]
      + IF ((Len(sorted) - 1) * quarters) % 4 = 0 THEN 0
        ELSE (((Len(sorted) - 1) * quarters) % 4)
               * (sorted[((Len(sorted) - 1) * quarters) \div 4 + 2]
                  - sorted[((Len(sorted) - 1) * quarters) \div 4 + 1])

\* 'thresholds' of the column; iqr_lower and iqr_upper in eighths:
\* Q1 - 1.5 * IQR and Q3 + 1.5 * IQR
Thresholds(q1, q3) ==
    [z_score |-> ZScoreThreshold,
     iqr_lower |-> 2 * q1 - 3 * (q3 - q1),
     iqr_upper |-> 2 * q3 + 3 * (q3 - q1)]

train_statistical_detector(data) ==
    Thresholds(Quantile4(Ascending(data, 0), 1),
               Quantile4(Ascending(data, 0), 3))

\* n * (data[i] - data.mean())
Deviation(data, i) == Len(data) * data[i] - SumSeq(data)

\* n^2 * (n - 1) * data.std()^2: the sum of the squared deviations
RECURSIVE SquaredDeviations(_, _)
SquaredDeviations(data, k) ==
    IF k = 0 THEN 0
    ELSE Deviation(data, k) * Deviation(data, k)
             + SquaredDeviations(data, k - 1)

\* z_scores = np.abs((data - data.mean()) / data.std());
\* z_anomalies = z_scores > thresholds['z_score'].  The mean and the
\* standard deviation are those of the batch being scored.  std() of one
\* record is NaN, and a constant batch gives 0 / 0: NaN compares False.
z_anomalies(data, i, thresholds) ==
    /\ Len(data) >= 2
    /\ SquaredDeviations(data, Len(data)) > 0
    /\ Deviation(data, i) * Deviation(data, i) * (Len(data) - 1)
           > thresholds.z_score * thresholds.z_score
                 * SquaredDeviations(data, Len(data))

\* (data < thresholds['iqr_lower']) | (data > thresholds['iqr_upper'])
iqr_anomalies(data, i, thresholds) ==
    \/ 8 * data[i] < thresholds.iqr_lower
    \/ 8 * data[i] > thresholds.iqr_upper

\* combined = z_anomalies | iqr_anomalies
combined(data, thresholds) ==
    [i \in DOMAIN data |->
        z_anomalies(data, i, thresholds) \/ iqr_anomalies(data, i, thresholds)]

NoThresholds == [trained |-> FALSE, thresholds |-> Thresholds(0, 0)]

NoScoring == [outcome |-> "None", data |-> <<>>, is_anomaly |-> <<>>]

StatStart ==
    /\ statModel = NoThresholds
    /\ statResult = NoScoring

(***************************************************************************)
(* The objects as constructed                                              *)
(***************************************************************************)
NoCall == NoResult("None", "none")

OptStart ==
    /\ optProblem = NoProblem
    /\ optResult = NoCall
    /\ optSummary = NoSummary

ScnStart ==
    /\ nowYear = FirstYear
    /\ baseline_scenario = NoBaseline
    /\ scenarios = NoScenarios
    /\ scenario_order = <<>>
    /\ scnResult = NoScenarioCall
    /\ scnCalls = 0

AnomStart ==
    /\ anomModels = NoDetectors
    /\ is_trained = FALSE
    /\ anomResult = NoDetection

FcStart ==
    /\ fcTraining = NoTraining
    /\ fcTrained = FALSE
    /\ fcResult = NoForecast

(***************************************************************************)
(* Two engines in two threads of one process                               *)
(* One thread owns a CarbonScenarioModeler and calls                       *)
(* create_intervention_scenario, the other owns a trained                  *)
(* EmissionForecaster and calls predict.  Both reach np.random.normal,     *)
(* which draws from numpy's one generator of the process; a call of it is  *)
(* atomic, the calls of the two threads interleave freely.                 *)
(***************************************************************************)
\* The generator's stream from its state at the start (its seed): each
\* element is a standard-normal variate, below (0) or above (1) the mean
Variates == {0, 1}
StreamLength == MaxTimeline + MaxSteps
Streams == [1..StreamLength -> Variates]

\* np.random.normal(1.0, uncertainty)
NoiseDraw(z) == IF z = 0 THEN R(1, 2) ELSE RInt(1)

\* np.random.normal(1000, 100, steps), one element
ForecastDraw(z) == IF z = 0 THEN 0 ELSE MaxPrediction

\* The modeler thread's own inputs
WorkerCompany ==
    [annual_emissions |-> BaseEmissions, business_growth_rate |-> R(2, 10),
     natural_efficiency |-> R(1, 10), scenario_timeline |-> MaxTimeline]
WorkerBaseline == create_baseline_scenario(WorkerCompany, FirstYear).value
WorkerInterventions == <<FleetSwitch>>

\* intervention_start = intervention['start_year'] - start_year
WorkerStartOffset ==
    ValidatedIntervention(FleetSwitch, FirstYear).start_year - FirstYear

\* one np.random.normal call per year from intervention_start on
DrawsNeeded == MaxTimeline + 1 - WorkerStartOffset

NoiseFromDraws(drawn) ==
    [k \in DOMAIN WorkerInterventions |->
        [i \in 1..(MaxTimeline + 1) |->
            IF i - 1 < WorkerStartOffset THEN RInt(1)
            ELSE drawn[i - WorkerStartOffset]]]

ModelerResult(drawn) ==
    create_intervention_scenario(WorkerBaseline, "plan", WorkerInterventions,
                                 FirstYear, NoiseFromDraws(drawn)).value

\* The forecaster thread's own engine: trained, best model 'linear'
WorkerTraining ==
    train_models(TRUE,
                 [m \in Range(models_to_train) |->
                     [raised |-> FALSE, test_mae |-> 0]],
                 FALSE).value

ForecasterResult(variates) ==
    predict(TRUE, WorkerTraining,
            [i \in DOMAIN variates |-> ForecastDraw(variates[i])])

\* The variates a call gets that asks for n of them at position pos
DrawnAt(stream, pos, n) == SubSeq(stream, pos + 1, pos + n)

IdleWorkers ==
    [modeler |-> [pc |-> "idle", drawn |-> <<>>, result |-> NoBaseline],
     forecaster |-> [pc |-> "idle", result |-> NoForecast]]

ConcStart ==
    /\ np_random = [stream |-> <<>>, pos |-> 0]
    /\ workers = IdleWorkers

(***************************************************************************)
(* handle_api_error(max_retries): the wrapper around a function            *)
(***************************************************************************)
MaxRetries == 3          \* largest max_retries drawn
BaseDelay == 1           \* base_delay = 1
DefaultRetryAfter == 60  \* headers.get('Retry-After', 60)

\* int(e.response.headers.get('Retry-After', 60)): a header of 1, or none
RetryAfterValues == {1, DefaultRetryAfter}

\* base_delay * (2 ** attempt)
Backoff(attempt) == BaseDelay * 2 ^ attempt

\* No wrapper call in progress
NoRetry ==
    [pc |-> "idle", max_retries |-> 0, attempt |-> 0, calls |-> <<>>,
     slept |-> <<>>, error |-> "None", value |-> "None"]

RetryStart == retry = NoRetry

\* func(*args, **kwargs) is called once more and raises or returns `how`
FuncCalled(r, how) == [r EXCEPT !.calls = Append(@, how)]

\* "raise" inside an except clause: the wrapper ends with that error
Reraised(r, e) == [r EXCEPT !.pc = "raised", !.error = e]

\* time.sleep(seconds), then the next pass of "for attempt in range(...)"
SleptThenNext(r, seconds) ==
    [r EXCEPT !.slept = Append(@, seconds), !.attempt = @ + 1]

\* except Timeout / ConnectionError / HTTPError with status >= 500:
\* "if attempt == max_retries - 1: raise", else sleep with backoff
RetriedWithBackoff(r, e) ==
    IF r.attempt = r.max_retries - 1 THEN Reraised(r, e)
    ELSE SleptThenNext(r, Backoff(r.attempt))

\* except HTTPError with status 429: sleep(retry_after); continue
RetriedAfterRateLimit(r, retry_after) == SleptThenNext(r, retry_after)

(***************************************************************************)
(* CarbonReductionOptimizer: actions                                       *)
(***************************************************************************)
OptInit ==
    /\ sortTies \in {"input_order", "reverse_order"}
    /\ fcAdvanced = TRUE
    /\ OptStart
    /\ ScnStart
    /\ AnomStart
    /\ FcStart
    /\ LimStart
    /\ ApStart
    /\ CmpStart
    /\ StatStart
    /\ ConcStart
    /\ RetryStart

\* One session per optimizer object: strategies called before a problem is
\* defined raise; a problem is defined; single strategies are called until
\* run_all_optimizations is called.
DefineReductionProblem ==
    /\ ~optSummary.ran
    /\ optResult.kind \in {"none", "raised"}
    /\ \/ \E items \in SeqsUpTo(DrawnInitiatives, MaxItems),
             b \in 1..MaxBudget, t \in 1..MaxTarget :
             optProblem' = [initiatives |-> items, budget |-> b, target |-> t]
       \/ optProblem' = SampleProblem
       \/ optProblem' = NegativeReductionProblem
       \/ optProblem' = SliverProblem
    /\ optResult' = NoResult("define_reduction_problem", "defined")
    /\ UNCHANGED <<sortTies, optSummary, outsideOpt>>

CostEffectivenessOptimization ==
    /\ ~optSummary.ran
    /\ \E r \in cost_effectiveness_outcomes(optProblem) : optResult' = r
    /\ UNCHANGED <<sortTies, optProblem, optSummary, outsideOpt>>

LinearProgrammingOptimization ==
    /\ ~optSummary.ran
    /\ \E r \in linear_programming_optimization(optProblem) : optResult' = r
    /\ UNCHANGED <<sortTies, optProblem, optSummary, outsideOpt>>

GeneticAlgorithmOptimization ==
    /\ ~optSummary.ran
    /\ \E r \in genetic_algorithm_optimization(optProblem) : optResult' = r
    /\ UNCHANGED <<sortTies, optProblem, optSummary, outsideOpt>>

MultiObjectiveOptimization ==
    /\ ~optSummary.ran
    /\ \E r \in multi_objective_optimization(optProblem) : optResult' = r
    /\ UNCHANGED <<sortTies, optProblem, optSummary, outsideOpt>>

RunAllOptimizations ==
    /\ ~optSummary.ran
    /\ optResult.kind \in {"none", "defined"}
    /\ \E ce \in cost_effectiveness_outcomes(optProblem),
          lp \in linear_programming_optimization(optProblem),
          ga \in genetic_algorithm_optimization(optProblem),
          mo \in multi_objective_optimization(optProblem) :
          optSummary' = run_all_optimizations(<<ce, lp, ga, mo>>)
    /\ UNCHANGED <<sortTies, optProblem, optResult, outsideOpt>>

OptNext ==
    \/ DefineReductionProblem
    \/ CostEffectivenessOptimization
    \/ LinearProgrammingOptimization
    \/ GeneticAlgorithmOptimization
    \/ MultiObjectiveOptimization
    \/ RunAllOptimizations

SpecOpt == OptInit /\ [][OptNext]_vars

(***************************************************************************)
(* CarbonScenarioModeler: operations                                       *)
(***************************************************************************)
ScnCall(call, outcome, name, r, y) ==
    [call |-> call, outcome |-> IF outcome = "None" THEN "ok" ELSE outcome,
     name |-> name, target_reduction |-> r, target_year |-> y,
     current_year |-> nowYear, annual_emissions |-> 0]

Called ==
    /\ scnCalls < MaxCalls
    /\ scnCalls' = scnCalls + 1

\* datetime.now().year moves on
NewYear ==
    /\ nowYear < FirstYear + MaxClockTicks
    /\ nowYear' = nowYear + 1
    /\ UNCHANGED <<baseline_scenario, scenarios, scenario_order, scnResult,
                   scnCalls, outsideScn>>

CreateBaselineScenario ==
    /\ Called
    /\ \E company_data \in CompanyProfiles :
          \E r \in {create_baseline_scenario(company_data, nowYear)} :
          /\ baseline_scenario' =
                 IF r.raised = "None" THEN r.value ELSE baseline_scenario
          /\ scnResult' =
                 [ScnCall("create_baseline_scenario", r.raised,
                          "Business as Usual", RInt(0), 0)
                     EXCEPT !.annual_emissions = company_data.annual_emissions]
    /\ UNCHANGED <<nowYear, scenarios, scenario_order, outsideScn>>

CreateInterventionScenario ==
    /\ Called
    /\ \E name \in ScenarioNames,
          interventions \in SeqsUpTo(InterventionCatalogue, MaxInterventions) :
          \E noise \in NoiseFor(_validate_interventions(interventions, nowYear),
                                baseline_scenario.timeline_years, nowYear) :
             \E r \in {create_intervention_scenario(baseline_scenario, name,
                                                    interventions, nowYear,
                                                    noise)} :
                /\ scenarios' =
                       IF r.raised = "None"
                       THEN Store(scenarios, name, r.value) ELSE scenarios
                /\ scenario_order' =
                       IF r.raised = "None"
                       THEN KeysAfterStore(scenarios, scenario_order, name)
                       ELSE scenario_order
                /\ scnResult' = ScnCall("create_intervention_scenario",
                                        r.raised, name, RInt(0), 0)
    /\ UNCHANGED <<nowYear, baseline_scenario, outsideScn>>

CreateTargetScenario ==
    /\ Called
    /\ \E target_reduction \in TargetReductions, target_year \in TargetYears :
          \E r \in {create_target_scenario(baseline_scenario, target_reduction,
                                           target_year, nowYear)} :
             /\ scenarios' =
                    IF r.raised = "None"
                    THEN Store(scenarios, r.value.name, r.value) ELSE scenarios
             /\ scenario_order' =
                    IF r.raised = "None"
                    THEN KeysAfterStore(scenarios, scenario_order,
                                        r.value.name)
                    ELSE scenario_order
             /\ scnResult' = ScnCall("create_target_scenario", r.raised,
                                     "None", target_reduction, target_year)
    /\ UNCHANGED <<nowYear, baseline_scenario, outsideScn>>

ScnInit ==
    /\ sortTies = "input_order"
    /\ fcAdvanced = TRUE
    /\ OptStart
    /\ ScnStart
    /\ AnomStart
    /\ FcStart
    /\ LimStart
    /\ ApStart
    /\ CmpStart
    /\ StatStart
    /\ ConcStart
    /\ RetryStart

ScnNext ==
    \/ NewYear
    \/ CreateBaselineScenario
    \/ CreateInterventionScenario
    \/ CreateTargetScenario

SpecScen == ScnInit /\ [][ScnNext]_vars



(***************************************************************************)
(* EmissionAnomalyDetector: operations                                     *)
(***************************************************************************)
TrainAllDetectors ==
    /\ \E emission_data \in Batches :
          \E time_series_verdicts \in Verdicts(Len(emission_data)) :
           \E unfit \in DetectorFailures :
             \E r \in {train_all_detectors(emission_data,
                                           time_series_verdicts, unfit)} :
                /\ anomModels' = IF r.raised = "None" THEN r.value
                                 ELSE anomModels
                /\ is_trained' = (is_trained \/ r.raised = "None")
                /\ anomResult' =
                       [AnomCall("train_all_detectors",
                                 IF r.raised = "None" THEN "ok" ELSE r.raised,
                                 emission_data)
                           EXCEPT !.unfit = unfit]
    /\ UNCHANGED outsideAnom

DetectAnomalies ==
    /\ \E new_data \in Batches :
          \E verdicts \in [Range(ConsultedDetectors) -> Verdicts(Len(new_data))] :
             anomResult' = detect_anomalies(anomModels, is_trained, new_data,
                                            verdicts)
    /\ UNCHANGED <<anomModels, is_trained, outsideAnom>>

AnomInit ==
    /\ sortTies = "input_order"
    /\ fcAdvanced = TRUE
    /\ OptStart
    /\ ScnStart
    /\ AnomStart
    /\ FcStart
    /\ LimStart
    /\ ApStart
    /\ CmpStart
    /\ StatStart
    /\ ConcStart
    /\ RetryStart

AnomNext ==
    \/ TrainAllDetectors
    \/ DetectAnomalies

SpecAnom == AnomInit /\ [][AnomNext]_vars

(***************************************************************************)
(* EmissionForecaster: operations                                          *)
(***************************************************************************)
TrainModels ==
    /\ \E has_emissions \in BOOLEAN, series_len \in SeriesLengths :
        \E fits \in FitsOn(series_len) :
          \E r \in {train_models(has_emissions, fits, fcAdvanced)} :
             /\ fcTraining' = IF r.raised = "None" THEN r.value ELSE fcTraining
             /\ fcTrained' = (fcTrained \/ r.raised = "None")
             /\ fcResult' =
                    [FcCall("train_models",
                            IF r.raised = "None" THEN "ok" ELSE r.raised)
                        EXCEPT !.has_emissions = has_emissions,
                               !.series_len = series_len,
                               !.failed = FailedFamilies(fits, fcAdvanced)]
    /\ UNCHANGED <<fcAdvanced, outsideFc>>

Predict ==
    /\ \E steps \in 1..MaxSteps :
          \E forecast \in [1..steps -> PredictionValues] :
             fcResult' = predict(fcTrained, fcTraining, forecast)
    /\ UNCHANGED <<fcAdvanced, fcTraining, fcTrained, outsideFc>>

FcInit ==
    /\ sortTies = "input_order"
    /\ fcAdvanced \in BOOLEAN
    /\ OptStart
    /\ ScnStart
    /\ AnomStart
    /\ FcStart
    /\ LimStart
    /\ ApStart
    /\ CmpStart
    /\ StatStart
    /\ ConcStart
    /\ RetryStart

FcNext ==
    \/ TrainModels
    \/ Predict

SpecFc == FcInit /\ [][FcNext]_vars

(***************************************************************************)
(* Two engines in two threads: steps                                       *)
(***************************************************************************)
\* _project_emissions_with_interventions, one pass of the year loop that
\* reaches "effectiveness *= np.random.normal(1.0, uncertainty)"
ModelerDraws ==
    /\ workers.modeler.pc = "running"
    /\ Len(workers.modeler.drawn) < DrawsNeeded
    /\ np_random' = [np_random EXCEPT !.pos = @ + 1]
    /\ workers' =
           [workers EXCEPT !.modeler.drawn =
               Append(@, NoiseDraw(np_random.stream[np_random.pos + 1]))]
    /\ UNCHANGED outsideConc

\* create_intervention_scenario returns
ModelerReturns ==
    /\ workers.modeler.pc = "running"
    /\ Len(workers.modeler.drawn) = DrawsNeeded
    /\ \E r \in {ModelerResult(workers.modeler.drawn)} :
          workers' = [workers EXCEPT !.modeler.pc = "done",
                                     !.modeler.result = r]
    /\ UNCHANGED <<np_random, outsideConc>>

\* predict(steps) with best model 'linear': one call of
\* np.random.normal(1000, 100, steps)
ForecasterPredicts ==
    /\ workers.forecaster.pc = "running"
    /\ \E steps \in 1..MaxSteps :
          /\ np_random' = [np_random EXCEPT !.pos = @ + steps]
          /\ \E r \in {ForecasterResult(DrawnAt(np_random.stream,
                                                np_random.pos, steps))} :
                workers' = [workers EXCEPT !.forecaster.pc = "done",
                                           !.forecaster.result = r]
    /\ UNCHANGED outsideConc

ConcInit ==
    /\ sortTies = "input_order"
    /\ fcAdvanced = TRUE
    /\ OptStart
    /\ ScnStart
    /\ AnomStart
    /\ FcStart
    /\ LimStart
    /\ ApStart
    /\ CmpStart
    /\ StatStart
    /\ np_random \in [stream : Streams, pos : {0}]
    /\ workers = [IdleWorkers EXCEPT !.modeler.pc = "running",
                                     !.forecaster.pc = "running"]
    /\ RetryStart

ConcNext ==
    \/ ModelerDraws
    \/ ModelerReturns
    \/ ForecasterPredicts

SpecConc == ConcInit /\ [][ConcNext]_vars

(***************************************************************************)
(* handle_api_error: one call of the wrapper, one action per way a pass    *)
(* of its loop can go                                                      *)
(***************************************************************************)
\* the loop has a pass left: "for attempt in range(max_retries)"
InLoop ==
    /\ retry.pc = "running"
    /\ retry.attempt < retry.max_retries

\* return func(*args, **kwargs)
FuncReturns ==
    /\ InLoop
    /\ retry' = [FuncCalled(retry, "ok") EXCEPT !.pc = "returned",
                                                !.value = "result"]
    /\ UNCHANGED outsideRetry

FuncTimesOut ==
    /\ InLoop
    /\ retry' = RetriedWithBackoff(FuncCalled(retry, "Timeout"), "Timeout")
    /\ UNCHANGED outsideRetry

FuncRateLimited ==
    /\ InLoop
    /\ \E retry_after \in RetryAfterValues :
          retry' = RetriedAfterRateLimit(FuncCalled(retry, "HTTP429"),
                                         retry_after)
    /\ UNCHANGED outsideRetry

FuncServerError ==
    /\ InLoop
    /\ retry' = RetriedWithBackoff(FuncCalled(retry, "HTTP5xx"), "HTTP5xx")
    /\ UNCHANGED outsideRetry

\* any other HTTPError status: "Client error, don't retry"
FuncClientError ==
    /\ InLoop
    /\ retry' = Reraised(FuncCalled(retry, "HTTP4xx"), "HTTP4xx")
    /\ UNCHANGED outsideRetry

FuncConnectionError ==
    /\ InLoop
    /\ retry' = RetriedWithBackoff(FuncCalled(retry, "ConnectionError"),
                                   "ConnectionError")
    /\ UNCHANGED outsideRetry

\* except Exception: raise
FuncUnexpectedError ==
    /\ InLoop
    /\ retry' = Reraised(FuncCalled(retry, "Exception"), "Exception")
    /\ UNCHANGED outsideRetry

\* the for loop runs out of passes: the wrapper's body ends, which returns
\* None
LoopEnds ==
    /\ retry.pc = "running"
    /\ retry.attempt >= retry.max_retries
    /\ retry' = [retry EXCEPT !.pc = "returned", !.value = "None"]
    /\ UNCHANGED outsideRetry

RetryInit ==
    /\ sortTies = "input_order"
    /\ fcAdvanced = TRUE
    /\ OptStart
    /\ ScnStart
    /\ AnomStart
    /\ FcStart
    /\ LimStart
    /\ ApStart
    /\ CmpStart
    /\ StatStart
    /\ ConcStart
    /\ \E n \in 0..MaxRetries :
          retry = [NoRetry EXCEPT !.pc = "running", !.max_retries = n]

RetryNext ==
    \/ FuncReturns
    \/ FuncTimesOut
    \/ FuncRateLimited
    \/ FuncServerError
    \/ FuncClientError
    \/ FuncConnectionError
    \/ FuncUnexpectedError
    \/ LoopEnds

SpecRetry == RetryInit /\ [][RetryNext]_vars

(***************************************************************************)
(* The statistical detector: operations                                    *)
(***************************************************************************)
\* train_all_detectors, as far as the statistical detector's column goes
TrainStatisticalDetector ==
    /\ \E data \in TrainingColumns :
          statModel' = [trained |-> TRUE,
                        thresholds |-> train_statistical_detector(data)]
    /\ statResult' = [NoScoring EXCEPT !.outcome = "trained"]
    /\ UNCHANGED outsideStat

\* detect_anomalies, as far as results['statistical'] of the column goes
StatisticalDetection ==
    /\ \E data \in NewColumns :
          statResult' =
              IF ~statModel.trained
              THEN [NoScoring EXCEPT !.outcome = "ValueError", !.data = data]
              ELSE [outcome |-> "ok", data |-> data,
                    is_anomaly |-> combined(data, statModel.thresholds)]
    /\ UNCHANGED <<statModel, outsideStat>>

StatInit ==
    /\ sortTies = "input_order"
    /\ fcAdvanced = TRUE
    /\ OptStart
    /\ ScnStart
    /\ AnomStart
    /\ FcStart
    /\ LimStart
    /\ ApStart
    /\ CmpStart
    /\ StatStart
    /\ ConcStart
    /\ RetryStart

StatNext ==
    \/ TrainStatisticalDetector
    \/ StatisticalDetection

SpecStat == StatInit /\ [][StatNext]_vars

(***************************************************************************)
(* CarbonScenarioModeler: scenarios created and compared                   *)
(***************************************************************************)
CreateComparedScenario ==
    /\ \E name \in ComparedNames,
          interventions \in SeqsUpTo(InterventionCatalogue,
                                     ComparedInterventions) :
          \E noise \in NoiseFor(_validate_interventions(interventions, nowYear),
                                baseline_scenario.timeline_years, nowYear) :
             \E r \in {create_intervention_scenario(baseline_scenario, name,
                                                    interventions, nowYear,
                                                    noise)} :
                /\ scenarios' =
                       IF r.raised = "None"
                       THEN Store(scenarios, name, r.value) ELSE scenarios
                /\ scenario_order' =
                       IF r.raised = "None"
                       THEN KeysAfterStore(scenarios, scenario_order, name)
                       ELSE scenario_order
                /\ scnResult' = ScnCall("create_intervention_scenario",
                                        r.raised, name, RInt(0), 0)
    /\ UNCHANGED <<nowYear, baseline_scenario, scnCalls, comparison, outsideCmp>>

\* scenario_names = None compares every stored scenario
CompareScenarios ==
    /\ \E scenario_names \in (SUBSET ComparedNames) \cup {DOMAIN scenarios} :
          comparison' = compare_scenarios(scenarios, scenario_order,
                                          scenario_names)
    /\ UNCHANGED <<scnVars, outsideCmp>>

\* a modeler on which create_baseline_scenario has been called once
CmpInit ==
    /\ sortTies = "input_order"
    /\ fcAdvanced = TRUE
    /\ OptStart
    /\ nowYear = FirstYear
    /\ \E company_data \in {c \in CompanyProfiles :
                                /\ c.annual_emissions = BaseEmissions
                                /\ c.scenario_timeline = 1} :
          /\ baseline_scenario
                 = create_baseline_scenario(company_data, FirstYear).value
          /\ scnResult =
                 [NoScenarioCall EXCEPT
                     !.call = "create_baseline_scenario", !.outcome = "ok",
                     !.name = "Business as Usual",
                     !.current_year = FirstYear,
                     !.annual_emissions = company_data.annual_emissions]
    /\ scenarios = NoScenarios
    /\ scenario_order = <<>>
    /\ scnCalls = 1
    /\ AnomStart
    /\ FcStart
    /\ LimStart
    /\ ApStart
    /\ CmpStart
    /\ StatStart
    /\ ConcStart
    /\ RetryStart

CmpNext ==
    \/ CreateComparedScenario
    \/ CompareScenarios

SpecCmp == CmpInit /\ [][CmpNext]_vars

(***************************************************************************)
(* ApprovalWorkflowService: operations                                     *)
(***************************************************************************)
SubmitForApproval ==
    /\ submissions < MaxSubmissions
    /\ submissions' = submissions + 1
    /\ \E r \in {submit_for_approval(report, approvals,
                                      db_enforces_not_null)} :
          /\ report' = r.report
          /\ approvals' = r.approvals
          /\ apResult' = r.result
    /\ UNCHANGED <<db_enforces_not_null, outsideAp>>

ProcessApproval ==
    /\ \E approval_level \in 1..MaxRequestedLevel, action \in ApprovalActions :
          \E r \in {process_approval(report, approvals, approval_level,
                                     action)} :
             /\ report' = r.report
             /\ approvals' = r.approvals
             /\ apResult' = r.result
    /\ UNCHANGED <<db_enforces_not_null, submissions, outsideAp>>

\* a draft report of any framework, on either kind of database
ApInit ==
    /\ sortTies = "input_order"
    /\ fcAdvanced = TRUE
    /\ OptStart
    /\ ScnStart
    /\ AnomStart
    /\ FcStart
    /\ LimStart
    /\ CmpStart
    /\ StatStart
    /\ ConcStart
    /\ RetryStart
    /\ db_enforces_not_null \in BOOLEAN
    /\ report \in [status : {"draft"}, framework : ReportFrameworks]
    /\ approvals = <<>>
    /\ submissions = 0
    /\ apResult = NoServiceCall

ApNext ==
    \/ SubmitForApproval
    \/ ProcessApproval

SpecAp == ApInit /\ [][ApNext]_vars

(***************************************************************************)
(* RateLimiter: operations                                                 *)
(***************************************************************************)
\* time passes
Tick ==
    /\ clock < MaxTime
    /\ clock' = clock + 1
    /\ UNCHANGED <<limiter, callers, returned, outsideLim>>

\* wait_if_needed below the limit: the lock taken, old requests dropped,
\* this request recorded, the lock released
PassesAtOnce(t) ==
    /\ callers[t].pc = "outside"
    /\ limiter.lock = "None"
    /\ ~AtLimit(RecentRequests(limiter.requests, clock),
                limiter.requests_per_minute)
    /\ limiter' = [limiter EXCEPT
                      !.requests = Append(RecentRequests(limiter.requests,
                                                         clock), clock)]
    /\ returned' = Append(returned, clock)
    /\ UNCHANGED <<clock, callers, outsideLim>>

\* at the limit with nothing recorded (requests_per_minute = 0): min() of
\* an empty list raises ValueError; the lock is released, nothing recorded
RaisesOnEmpty(t) ==
    /\ callers[t].pc = "outside"
    /\ limiter.lock = "None"
    /\ AtLimit(RecentRequests(limiter.requests, clock),
               limiter.requests_per_minute)
    /\ RecentRequests(limiter.requests, clock) = <<>>
    /\ limiter' = [limiter EXCEPT !.requests = <<>>]
    /\ UNCHANGED <<clock, callers, returned, outsideLim>>

\* at the limit: the lock taken, old requests dropped, time.sleep entered
\* with the lock held (wait_seconds > 0 for every recent request)
StartsWaiting(t) ==
    /\ callers[t].pc = "outside"
    /\ limiter.lock = "None"
    /\ AtLimit(RecentRequests(limiter.requests, clock),
               limiter.requests_per_minute)
    /\ RecentRequests(limiter.requests, clock) # <<>>
    /\ limiter' = [limiter EXCEPT
                      !.requests = RecentRequests(limiter.requests, clock),
                      !.lock = t]
    /\ callers' = [callers EXCEPT
                      ![t] = [pc |-> "sleeping", now |-> clock,
                              wait_until |->
                                  WaitUntil(RecentRequests(limiter.requests,
                                                           clock))]]
    /\ UNCHANGED <<clock, returned, outsideLim>>

\* time.sleep is over: self.requests.append(now) with the now read before
\* the sleep, the lock released, the call returns
WakesAndReturns(t) ==
    /\ callers[t].pc = "sleeping"
    /\ clock >= callers[t].wait_until
    /\ limiter' = [limiter EXCEPT
                      !.requests = Append(limiter.requests, callers[t].now),
                      !.lock = "None"]
    /\ callers' = [callers EXCEPT ![t] = Outside]
    /\ returned' = Append(returned, clock)
    /\ UNCHANGED <<clock, outsideLim>>

LimInit ==
    /\ sortTies = "input_order"
    /\ fcAdvanced = TRUE
    /\ OptStart
    /\ ScnStart
    /\ AnomStart
    /\ FcStart
    /\ ApStart
    /\ CmpStart
    /\ StatStart
    /\ ConcStart
    /\ RetryStart
    /\ clock = 0
    /\ \E n \in 0..MaxLimit :
          limiter = [NoLimiter EXCEPT !.requests_per_minute = n]
    /\ callers = [t \in Threads |-> Outside]
    /\ returned = <<>>

LimNext ==
    \/ Tick
    \/ \E t \in Threads : PassesAtOnce(t)
    \/ \E t \in Threads : RaisesOnEmpty(t)
    \/ \E t \in Threads : StartsWaiting(t)
    \/ \E t \in Threads : WakesAndReturns(t)

SpecLim == LimInit /\ [][LimNext]_vars

(***************************************************************************)
(* Properties of the optimizer                                             *)
(***************************************************************************)
SummaryResults == Range(optSummary.optimization_results)

\* C1: every result marked successful (success is not False), of any of the
\* four strategies, called alone or inside run_all_optimizations, reports
\* total_cost <= budget_constraint.
C1_SuccessfulWithinBudget ==
    /\ Success(optResult) => RLe(optResult.total_cost, RInt(optProblem.budget))
    /\ \A r \in SummaryResults :
           Success(r) => RLe(r.total_cost, RInt(optProblem.budget))

IsSampleGreedy ==
    /\ optProblem = SampleProblem
    /\ optResult.method = "cost_effectiveness"
    /\ optResult.kind = "result"

\* C2 as stated: on the fixture (budget 300000, target 400) the greedy
\* strategy selects the 200000/500 and the 50000/100 initiatives: total cost
\* 250000, total reduction 600, target_achievement >= 1.0.
C2_SampleSelectsSolarAndLed ==
    IsSampleGreedy =>
        /\ Range(optResult.selected) = {2, 1}
        /\ optResult.total_cost = RInt(250000)
        /\ optResult.total_reduction = RInt(600)
        /\ RLe(RInt(1), optResult.target_achievement)

\* C2 amended: on the fixture the greedy strategy selects the 200000/500
\* initiative first and then the one of the two initiatives of equal ratio
\* (50000/100 and 75000/150) that the reversed argsort puts first: 75000/150
\* when equal ratios are sorted in input order (total cost 275000, reduction
\* 650), else 50000/100 (250000, 600); either way total_cost <= 300000 and
\* target_achievement >= 1.0.
C2_SampleSelection ==
    IsSampleGreedy =>
        /\ IF sortTies = "input_order"
           THEN /\ optResult.selected = <<2, 3>>
                /\ optResult.total_cost = RInt(275000)
                /\ optResult.total_reduction = RInt(650)
           ELSE /\ optResult.selected = <<2, 1>>
                /\ optResult.total_cost = RInt(250000)
                /\ optResult.total_reduction = RInt(600)
        /\ RLe(optResult.total_cost, RInt(300000))
        /\ RLe(RInt(1), optResult.target_achievement)

C2_Witness ==
    /\ IsSampleGreedy
    /\ sortTies = "input_order"
    /\ optResult.selected = <<2, 3>>

\* C10: in run_all_optimizations a strategy that raises or reports
\* success=False does not abort the run: all four strategies have an entry,
\* in order; a failed one is in no comparison row and is not best_method;
\* and the run has a best_method (a successful one) as soon as one strategy
\* succeeded.
C10_FailureDoesNotAbort ==
    optSummary.ran =>
        LET res == optSummary.optimization_results IN
        /\ Len(res) = Len(Methods)
        /\ \A k \in DOMAIN res : res[k].method = Methods[k]
        /\ \A r \in Range(res) :
               ~Success(r) =>
                   /\ optSummary.best_method # r.method
                   /\ \A row \in optSummary.comparison : row.method # r.method
        /\ (\E r \in Range(res) : Success(r)) =>
               \E r \in Range(res) : Success(r) /\ optSummary.best_method = r.method

\* a run in which linear programming reported success=False, a strategy run
\* after it succeeded, and a successful strategy was reported best
C10_Witness ==
    /\ optSummary.ran
    /\ LET res == optSummary.optimization_results IN
       /\ res[2].kind = "failed"
       /\ Success(res[3])
       /\ optSummary.best_method \in {"cost_effectiveness", "genetic_algorithm"}

(***************************************************************************)
(* Properties of the scenario modeler                                      *)
(***************************************************************************)
\* The last call created an intervention scenario from an empty list
IsEmptyInterventionCall ==
    /\ scnResult.call = "create_intervention_scenario"
    /\ scnResult.outcome = "ok"
    /\ scenarios[scnResult.name].interventions = <<>>

\* C3: create_intervention_scenario with an empty intervention list yields
\* a projection whose per-year emissions and cumulative emissions equal the
\* baseline projection, for every year of the horizon.
C3_EmptyListEqualsBaseline ==
    IsEmptyInterventionCall =>
        LET projections == scenarios[scnResult.name].projections
            baseline == baseline_scenario.projections
        IN /\ Len(projections.emissions) = baseline_scenario.timeline_years + 1
           /\ projections.emissions = baseline.emissions
           /\ projections.cumulative_emissions = baseline.cumulative_emissions

\* an empty-list scenario over a horizon of two or more years, created in a
\* later calendar year than its baseline
C3_Witness ==
    /\ IsEmptyInterventionCall
    /\ baseline_scenario.timeline_years >= 2
    /\ scenarios[scnResult.name].projections.years
           # baseline_scenario.projections.years

\* The last call was create_target_scenario(r, Y) on a modeler with a
\* baseline and with Y later than the current year
IsTargetCall ==
    /\ scnResult.call = "create_target_scenario"
    /\ baseline_scenario # NoBaseline
    /\ scnResult.target_year > scnResult.current_year

\* C4: on a modeler with a baseline, create_target_scenario(r, Y) with Y
\* later than the current year returns a scenario of type 'target' spanning
\* Y - current year years, and registers it in self.scenarios.
C4_TargetScenarioRegistered ==
    IsTargetCall =>
        /\ scnResult.outcome = "ok"
        /\ \E n \in DOMAIN scenarios :
               /\ scenarios[n].type = "target"
               /\ scenarios[n].timeline_years
                      = scnResult.target_year - scnResult.current_year

\* C5: create_intervention_scenario and create_target_scenario called while
\* no baseline has been created raise ValueError, and the call leaves
\* self.scenarios (and the missing baseline) as they were.
C5_NoBaselineRaises ==
    [][(/\ scnCalls' # scnCalls
        /\ baseline_scenario = NoBaseline
        /\ scnResult'.call \in {"create_intervention_scenario",
                                "create_target_scenario"})
          => (/\ scnResult'.outcome = "ValueError"
              /\ scenarios' = scenarios
              /\ baseline_scenario' = NoBaseline)]_vars

\* create_target_scenario was refused for want of a baseline, after an
\* earlier call on the same modeler
C5_Witness ==
    /\ scnResult.call = "create_target_scenario"
    /\ scnResult.outcome = "ValueError"
    /\ baseline_scenario = NoBaseline
    /\ scenarios = NoScenarios
    /\ scnCalls >= 2

(***************************************************************************)
(* Properties of the anomaly detector                                      *)
(***************************************************************************)
IsDetection ==
    /\ anomResult.call = "detect_anomalies"
    /\ anomResult.outcome = "ok"

\* record i (1-based) of the batch is listed in anomalous_records
Listed(i) ==
    \E k \in DOMAIN anomResult.anomalous_records :
        anomResult.anomalous_records[k].index = i - 1

\* the detectors of detection_methods whose verdict for record i is true
Flaggers(i) ==
    {m \in DOMAIN anomResult.detection_methods :
        anomResult.detection_methods[m][i]}

\* C6: in every detect_anomalies result a record is listed iff at least one
\* detector's verdict for it is true, it is listed once, its detected_by is
\* exactly the non-empty set of detectors that flagged it, and
\* total_anomalies is the number of listed records.
C6_ListedIffFlagged ==
    IsDetection =>
        LET records == anomResult.anomalous_records IN
        /\ \A i \in DOMAIN anomResult.data : Listed(i) <=> Flaggers(i) # {}
        /\ \A k \in DOMAIN records :
               /\ records[k].index + 1 \in DOMAIN anomResult.data
               /\ Range(records[k].detected_by) = Flaggers(records[k].index + 1)
               /\ Len(records[k].detected_by)
                      = Cardinality(Flaggers(records[k].index + 1))
               /\ records[k].detected_by # <<>>
               /\ \A j \in DOMAIN records :
                      records[j].index = records[k].index => j = k
        /\ anomResult.total_anomalies = Len(records)

\* a batch of two records: the first flagged by no detector, the second by
\* the statistical tests alone
C6_Witness ==
    /\ IsDetection
    /\ Len(anomResult.data) = 2
    /\ anomResult.anomalous_records
           = <<[index |-> 1, detected_by |-> <<"statistical">>]>>

\* C7: after train_all_detectors, detect_anomalies run on the records the
\* detectors were trained on reports a record iff the isolation forest, the
\* statistical tests or the time-series detector flags it.
C7_UnionOfThreeDetectors ==
    (IsDetection /\ anomResult.data = anomModels.trained_on) =>
        \A i \in DOMAIN anomResult.data :
            Listed(i) <=> (Flaggers(i) # {} \/ anomModels.combined_anomalies[i])

(***************************************************************************)
(* Properties of the forecaster                                            *)
(***************************************************************************)
IsForecast ==
    /\ fcResult.call = "predict"
    /\ fcResult.outcome = "ok"

\* C8: every result of predict(steps), steps >= 1, has
\* lower_bound[i] <= predictions[i] <= upper_bound[i] at every step i.
C8_BoundsEnclosePredictions ==
    IsForecast =>
        LET interval == fcResult.confidence_interval IN
        /\ Len(fcResult.predictions) >= 1
        /\ DOMAIN interval.lower_bound = DOMAIN fcResult.predictions
        /\ DOMAIN interval.upper_bound = DOMAIN fcResult.predictions
        /\ \A i \in DOMAIN fcResult.predictions :
               /\ RLe(interval.lower_bound[i], RInt(fcResult.predictions[i]))
               /\ RLe(RInt(fcResult.predictions[i]), interval.upper_bound[i])

\* a two-step forecast with unequal values, one of them negative, so the
\* margin is positive
C8_Witness ==
    /\ IsForecast
    /\ fcResult.predictions = <<-1, 2>>
    /\ RLt(fcResult.confidence_interval.lower_bound[1], RInt(-1))

IsTraining ==
    /\ fcResult.call = "train_models"
    /\ fcResult.outcome = "ok"

\* C9: whenever train_models returns, best_model is one of the returned
\* models and no returned model has a smaller held-out test MAE.
C9_BestHasLeastMAE ==
    IsTraining =>
        /\ fcTraining.best_model \in DOMAIN fcTraining.models
        /\ \A m \in DOMAIN fcTraining.models :
               fcTraining.models[fcTraining.best_model].test_mae
                   <= fcTraining.models[m].test_mae

\* all three candidates trained; the second has the least MAE and the one
\* trained after it a larger one
C9_Witness ==
    /\ IsTraining
    /\ DOMAIN fcTraining.models = Range(models_to_train)
    /\ fcTraining.best_model = "arima"
    /\ fcTraining.models["arima"].test_mae < fcTraining.models["linear"].test_mae
    /\ fcTraining.models["arima"].test_mae < fcTraining.models["prophet"].test_mae

\* C11: in train_all_detectors a detector that fails to train does not
\* abort the run: when some but not all of the three detectors fail on a
\* non-empty frame, the call returns, the instance is trained and
\* self.models holds exactly the detectors that could be trained.
IsPartialTraining ==
    /\ anomResult.call = "train_all_detectors"
    /\ anomResult.data # <<>>
    /\ anomResult.unfit # {}
    /\ anomResult.unfit # Range(TrainedDetectors)

C11_FailedDetectorDoesNotAbort ==
    IsPartialTraining =>
        /\ anomResult.outcome = "ok"
        /\ is_trained
        /\ anomModels.keys = Range(TrainedDetectors) \ anomResult.unfit

\* a call of train_models on a frame that has the 'emissions' column
IsTrainingCall ==
    /\ fcResult.call = "train_models"
    /\ fcResult.has_emissions

WellFormedProblem(p) ==
    /\ p.budget > 0
    /\ p.target > 0
    /\ \A i \in DOMAIN p.initiatives :
           p.initiatives[i].cost > 0 /\ p.initiatives[i].co2_reduction >= 0

\* C13: define_reduction_problem rejects every input in which an initiative
\* has cost <= 0 or reduction < 0, or budget <= 0 or target <= 0: a problem
\* it has accepted is well formed.
C13_InvalidProblemRejected ==
    (optResult.method = "define_reduction_problem"
        /\ optResult.kind = "defined")
    => WellFormedProblem(optProblem)

(***************************************************************************)
(* Properties of the baseline projection                                   *)
(***************************************************************************)
IsBaselineCall == scnResult.call = "create_baseline_scenario"

\* C15: create_baseline_scenario with current emissions 0 returns a
\* projection whose percentage change is 0 (or null); it does not raise a
\* division error.
C15_ZeroEmissionsNoDivisionError ==
    (IsBaselineCall /\ scnResult.annual_emissions = 0) =>
        /\ scnResult.outcome = "ok"
        /\ baseline_scenario.projections.summary.emission_change_total
               = RInt(0)

\* 1 + business_growth_rate - natural_efficiency
NetGrowthFactor(parameters) ==
    RSub(RAdd(RInt(1), parameters.business_growth_rate),
         parameters.efficiency_improvement)

\* C16: a baseline that create_baseline_scenario has produced holds
\* timeline_years + 1 yearly emissions, the first equal to
\* current_emissions and each following one the previous one times
\* (1 + business_growth_rate - natural_efficiency); with current emissions
\* 10000, growth 0.05 and efficiency 0.01 the value at year 1 is 10400.
C16_BaselineCompoundsNetGrowth ==
    baseline_scenario # NoBaseline =>
        LET emissions == baseline_scenario.projections.emissions
            parameters == baseline_scenario.parameters
        IN /\ Len(emissions) = baseline_scenario.timeline_years + 1
           /\ emissions[1] = parameters.current_emissions
           /\ \A y \in 1..baseline_scenario.timeline_years :
                  emissions[y + 1]
                      = RMul(emissions[y], NetGrowthFactor(parameters))
           /\ (parameters.current_emissions = RInt(10000)
                  /\ parameters.business_growth_rate = R(5, 100)
                  /\ parameters.efficiency_improvement = R(1, 100))
              => emissions[2] = RInt(10400)

\* the fixture's baseline over two years: 10000, 10400, 10816
C16_Witness ==
    /\ IsBaselineCall
    /\ scnResult.outcome = "ok"
    /\ scnResult.annual_emissions = 10000
    /\ baseline_scenario.timeline_years = 2
    /\ baseline_scenario.projections.emissions[3] = RInt(10816)

(***************************************************************************)
(* Determinism                                                             *)
(***************************************************************************)
IsInterventionScenario(result, registry) ==
    /\ result.call = "create_intervention_scenario"
    /\ result.outcome = "ok"
    /\ result.name \in DOMAIN registry

\* the caller left 'uncertainty' out of every intervention: validation has
\* put the default in its place
UncertaintyNotSupplied(scenario) ==
    \A k \in DOMAIN scenario.interventions :
        scenario.interventions[k].uncertainty = DefaultUncertainty

\* C17: two successive calls of create_intervention_scenario with the same
\* baseline and the same intervention list, the caller supplying no
\* uncertainty or seed, produce identical per-year emissions and identical
\* impact metrics.
C17_ProjectionDeterministic ==
    [][(/\ IsInterventionScenario(scnResult, scenarios)
        /\ IsInterventionScenario(scnResult', scenarios')
        /\ scnResult'.name = scnResult.name
        /\ baseline_scenario' = baseline_scenario
        /\ nowYear' = nowYear
        /\ scenarios'[scnResult.name].interventions
               = scenarios[scnResult.name].interventions
        /\ UncertaintyNotSupplied(scenarios[scnResult.name]))
       => /\ scenarios'[scnResult.name].projections.emissions
                 = scenarios[scnResult.name].projections.emissions
          /\ scenarios'[scnResult.name].impact_metrics
                 = scenarios[scnResult.name].impact_metrics]_vars

IsGreedyResult(result) ==
    /\ result.method = "cost_effectiveness"
    /\ result.kind = "result"

ModelerAlone == ModelerResult([i \in 1..DrawsNeeded |->
                                  NoiseDraw(np_random.stream[i])])
ForecasterAlone(steps) ==
    ForecasterResult(DrawnAt(np_random.stream, 0, steps))

\* C19: two invocations on independent engine instances with independent
\* inputs, interleaved in any order across threads, each return the same
\* result as when run alone.
C19_InterleavingKeepsResults ==
    /\ workers.modeler.pc = "done" =>
           workers.modeler.result = ModelerAlone
    /\ workers.forecaster.pc = "done" =>
           workers.forecaster.result
               = ForecasterAlone(Len(workers.forecaster.result.predictions))

(***************************************************************************)
(* Properties of handle_api_error                                          *)
(***************************************************************************)
RetryableErrors == {"Timeout", "ConnectionError", "HTTP5xx", "HTTP429"}

\* the wrapper's call has ended and every call of the function failed with
\* a retryable error
RetriesExhausted ==
    /\ retry.pc \in {"returned", "raised"}
    /\ retry.max_retries >= 1
    /\ \A i \in DOMAIN retry.calls : retry.calls[i] \in RetryableErrors

\* C20: a function wrapped by handle_api_error(max_retries = n) that fails
\* on every call with a retryable error (timeout, connection error, HTTP
\* 5xx or HTTP 429) is called at most n times, after which the wrapper
\* raises that error instead of returning a value.
C20_RetriesExhaustedRaises ==
    RetriesExhausted =>
        /\ Len(retry.calls) <= retry.max_retries
        /\ retry.pc = "raised"
        /\ retry.error = retry.calls[Len(retry.calls)]

(***************************************************************************)
(* Properties of the intervention projection                               *)
(***************************************************************************)
\* The last call created an intervention scenario; it is the stored one
LastScenario == scenarios[scnResult.name]

\* start_offset: years from the year of the call to the start year
StartOffset(intervention) == intervention.start_year - scnResult.current_year

IsCertainScenario ==
    /\ IsInterventionScenario(scnResult, scenarios)
    /\ \A k \in DOMAIN LastScenario.interventions :
           LastScenario.interventions[k].uncertainty = RInt(0)

\* 0 before the start, (k + 1) / ramp_duration in ramp year k, then
\* (1 - decay_rate) ^ (years since the ramp ended)
StatedEffectiveness(intervention, y) ==
    IF y < StartOffset(intervention) THEN RInt(0)
    ELSE IF y - StartOffset(intervention)
                < intervention.implementation_duration
    THEN R(y - StartOffset(intervention) + 1,
           intervention.implementation_duration)
    ELSE RPow(RSub(RInt(1), intervention.effectiveness_decay),
              y - StartOffset(intervention)
                  - intervention.implementation_duration)

\* baseline_emission[y] * annual_reduction_fraction * effectiveness
StatedReduction(intervention, y) ==
    RMul(RMul(baseline_scenario.projections.emissions[y + 1],
              intervention.annual_reduction),
         StatedEffectiveness(intervention, y))

\* the emission of every year is the baseline's minus the year's impacts
EmissionsAreBaselineMinusImpacts ==
    \A y \in 0..LastScenario.timeline_years :
        LastScenario.projections.emissions[y + 1]
            = RSub(baseline_scenario.projections.emissions[y + 1],
                   ImpactInYear(LastScenario.projections.intervention_effects,
                                y + 1))

\* C21 (as stated): with uncertainty disabled, the effectiveness of every
\* intervention in every year y of the horizon is 0 before start_offset,
\* (k + 1) / ramp_duration in ramp year k and (1 - decay_rate) ^ (y -
\* start_offset - ramp_duration) after the ramp; the realized reduction of
\* year y is baseline_emission[y] * annual_reduction_fraction *
\* effectiveness, and the scenario's emission of year y is the baseline
\* emission minus the sum of all interventions' realized reductions.
C21_ReductionIsProportionalOnly ==
    IsCertainScenario =>
        /\ \A y \in 0..LastScenario.timeline_years :
               \A k \in DOMAIN LastScenario.interventions :
                   LastScenario.projections.intervention_effects[k]
                           .annual_impact[y + 1]
                       = StatedReduction(LastScenario.interventions[k], y)
        /\ EmissionsAreBaselineMinusImpacts

\* C21 (amended): the same effectiveness; the realized reduction of year y
\* is baseline_emission[y] * annual_reduction_fraction * effectiveness, plus
\* the one-time reduction in the year y = start_offset, and the scenario's
\* emission of year y is the baseline emission minus the sum of all
\* interventions' realized reductions.
C21_EffectivenessRampAndDecay ==
    IsCertainScenario =>
        /\ \A y \in 0..LastScenario.timeline_years :
               \A k \in DOMAIN LastScenario.interventions :
                   LastScenario.projections.intervention_effects[k]
                           .annual_impact[y + 1]
                       = IF y = StartOffset(LastScenario.interventions[k])
                         THEN RAdd(StatedReduction(
                                       LastScenario.interventions[k], y),
                                   LastScenario.interventions[k]
                                       .one_time_reduction)
                         ELSE StatedReduction(LastScenario.interventions[k], y)
        /\ EmissionsAreBaselineMinusImpacts

\* the solar roof, started the year before the call, over two years: the
\* ramp has ended and the last year's effectiveness has decayed to 0.9
C21_Witness ==
    /\ IsCertainScenario
    /\ LastScenario.timeline_years = 2
    /\ Len(LastScenario.interventions) = 1
    /\ LastScenario.interventions[1].name = "solar"
    /\ StartOffset(LastScenario.interventions[1]) = -1
    /\ StatedEffectiveness(LastScenario.interventions[1], 2) = R(9, 10)

\* The draws np.random.normal(1.0, uncertainty) can have produced
PossibleDraws(intervention) ==
    IF intervention.uncertainty.n = 0 THEN {RInt(1)} ELSE NoiseDraws

\* The proportional part of the reduction of year y under one draw
ProportionalReduction(intervention, y, draw) ==
    IF y < StartOffset(intervention) THEN RInt(0)
    ELSE RMul(baseline_scenario.projections.emissions[y + 1],
              RMul(intervention.annual_reduction,
                   Effectiveness(intervention,
                                 y - StartOffset(intervention), draw)))

\* The realized reduction of year y is the proportional part plus extra
ReductionCarries(k, y, extra) ==
    \E draw \in PossibleDraws(LastScenario.interventions[k]) :
        LastScenario.projections.intervention_effects[k].annual_impact[y + 1]
            = RAdd(ProportionalReduction(LastScenario.interventions[k],
                                         y, draw),
                   extra)

ActiveInHorizon(intervention) ==
    StartOffset(intervention) <= LastScenario.timeline_years

FirstActiveYear(intervention) ==
    IF StartOffset(intervention) < 0 THEN 0 ELSE StartOffset(intervention)

\* C22: for every intervention that is active in at least one year of the
\* horizon, its one-time reduction is added to the realized reduction of
\* the first year of the horizon in which the intervention is active, and
\* to no other year.
C22_OneTimeInFirstActiveYear ==
    IsInterventionScenario(scnResult, scenarios) =>
        \A k \in DOMAIN LastScenario.interventions :
            ActiveInHorizon(LastScenario.interventions[k]) =>
                \A y \in 0..LastScenario.timeline_years :
                    ReductionCarries(k, y,
                        IF y = FirstActiveYear(LastScenario.interventions[k])
                        THEN LastScenario.interventions[k].one_time_reduction
                        ELSE RInt(0))

\* C23: after any sequence of create_baseline_scenario,
\* create_intervention_scenario and create_target_scenario calls on one
\* modeler, every stored scenario has the same timeline horizon
\* (timeline_years) as the modeler's current baseline.
C23_StoredHorizonMatchesBaseline ==
    \A name \in DOMAIN scenarios :
        scenarios[name].timeline_years = baseline_scenario.timeline_years

(***************************************************************************)
(* The best method of run_all_optimizations                                *)
(***************************************************************************)
\* positions (in running order) of the strategies that succeeded
Succeeded == {k \in DOMAIN optSummary.optimization_results :
                 Success(optSummary.optimization_results[k])}

ScoreAt(k) == Score(optSummary.optimization_results[k])

\* C24: run_all_optimizations reports as best_method the strategy that
\* maximizes score = 0.7 * target_achievement + 0.3 * (1 -
\* budget_utilization) among the strategies that succeeded in that run (the
\* earliest-run one among equal scores), and reports no best_method only
\* when no strategy succeeded.
C24_BestMethodMaximisesScore ==
    optSummary.ran =>
        IF Succeeded = {}
        THEN optSummary.best_method = "None"
        ELSE \E k \in Succeeded :
                /\ optSummary.best_method
                       = optSummary.optimization_results[k].method
                /\ optSummary.best_score = ScoreAt(k)
                /\ \A j \in Succeeded : RLe(ScoreAt(j), ScoreAt(k))
                /\ \A j \in Succeeded : j < k => RLt(ScoreAt(j), ScoreAt(k))

\* two strategies succeeded with the same, highest score and a third one
\* scored less; the earlier of the two is reported
C24_Witness ==
    /\ optSummary.ran
    /\ \E j, k, l \in Succeeded :
           /\ j < k
           /\ ScoreAt(j) = ScoreAt(k)
           /\ RLt(ScoreAt(l), ScoreAt(k))
           /\ \A i \in Succeeded : RLe(ScoreAt(i), ScoreAt(j))
           /\ optSummary.best_method
                  = optSummary.optimization_results[j].method

\* intervention cost incurred in the years 0..y (positions 1..i)
RECURSIVE CostsUpTo(_, _)
CostsUpTo(effects, i) ==
    IF effects = <<>> THEN 0
    ELSE SumSeq(SubSeq(Head(effects).costs, 1, i))
             + CostsUpTo(Tail(effects), i)

\* realized reductions of the years 0..y, valued at the carbon price
RECURSIVE SavingsUpTo(_, _)
SavingsUpTo(effects, i) ==
    IF i = 0 THEN RInt(0)
    ELSE RAdd(SavingsUpTo(effects, i - 1),
              RMul(ImpactInYear(effects, i), RInt(CarbonPrice)))

PaidBackIn(effects, i) ==
    RLe(RInt(CostsUpTo(effects, i)), SavingsUpTo(effects, i))

\* the first year whose cumulative savings cover the cost incurred so far
StatedPayback(projections) ==
    IF \E i \in DOMAIN projections.emissions :
           PaidBackIn(projections.intervention_effects, i)
    THEN [finite |-> TRUE,
          year |-> (CHOOSE i \in DOMAIN projections.emissions :
                      /\ PaidBackIn(projections.intervention_effects, i)
                      /\ \A j \in 1..(i - 1) :
                             ~PaidBackIn(projections.intervention_effects, j))
                   - 1]
    ELSE NeverPaysBack

\* C26: the payback period of an intervention scenario is the first
\* projected year y in which the cumulative savings up to y (realized
\* reductions valued at the carbon price) are >= the cumulative intervention
\* cost incurred up to y, and is 'never' (infinite) when no year of the
\* horizon satisfies this.
C26_PaybackIsFirstCoveredYear ==
    (/\ IsInterventionScenario(scnResult, scenarios)
     /\ LastScenario.impact_metrics.computed)
        => LastScenario.impact_metrics.payback_period
               = StatedPayback(LastScenario.projections)

\* sum of the 'cost' fields of selected_initiatives, in 1/LevelDenOf(p):
\* level * cost for the LP, the cost itself for the other strategies
RECURSIVE FieldSum(_, _, _)
FieldSum(r, v, k) ==
    IF k = 0 THEN 0
    ELSE r.levels[k] * v[r.selected[k]] + FieldSum(r, v, k - 1)

NoInitiativeTwice(r) ==
    \A i, j \in DOMAIN r.selected : r.selected[i] = r.selected[j] => i = j

TotalsAreFieldSums(p, r) ==
    /\ r.total_cost = R(FieldSum(r, costs(p), Len(r.selected)), LevelDenOf(p))
    /\ r.total_reduction
           = R(FieldSum(r, impacts(p), Len(r.selected)), LevelDenOf(p))

\* the successful results at hand: the last strategy call's and those of the
\* last run_all_optimizations
SuccessfulResults ==
    {r \in {optResult} \cup Range(optSummary.optimization_results) :
        Success(r) /\ r.method \in Range(Methods)}

\* C27 (as stated): for every successful result of any of the four
\* strategies, selected_initiatives contains no initiative twice, total_cost
\* equals the sum of the cost fields of selected_initiatives and
\* total_reduction equals the sum of their reduction fields.
C27_TotalsMatchSelection ==
    \A r \in SuccessfulResults :
        NoInitiativeTwice(r) /\ TotalsAreFieldSums(optProblem, r)

\* values v of the initiatives that r does not list, summed
UnlistedSum(r, v) ==
    SumSeq(v) - SumSeq([k \in DOMAIN r.selected |-> v[r.selected[k]]])

\* 0 <= total - (sum of the listed fields) <= 0.01 * (sum of the unlisted)
WithinSlivers(r, total, v, den) ==
    /\ RLe(R(FieldSum(r, v, Len(r.selected)), den), total)
    /\ RLe(RSub(total, R(FieldSum(r, v, Len(r.selected)), den)),
           R(UnlistedSum(r, v), 100))

\* C27 (amended): no successful result lists an initiative twice.  For the
\* greedy, genetic and multi-objective strategies total_cost and
\* total_reduction are the sums of the listed cost and reduction fields.
\* For the linear program they are the sums over all initiatives of level *
\* cost and level * reduction, the unlisted levels (<= 0.01) included:
\* total_cost exceeds the sum of the listed cost fields by at most 1% of the
\* unlisted initiatives' costs, and likewise total_reduction when no
\* co2_reduction is negative.
C27_TotalsCoverSelection ==
    \A r \in SuccessfulResults :
        /\ NoInitiativeTwice(r)
        /\ r.method # "linear_programming"
               => TotalsAreFieldSums(optProblem, r)
        /\ r.method = "linear_programming"
               => /\ WithinSlivers(r, r.total_cost, costs(optProblem),
                                   LevelDenOf(optProblem))
                  /\ (\A i \in DOMAIN optProblem.initiatives :
                         optProblem.initiatives[i].co2_reduction >= 0)
                        => WithinSlivers(r, r.total_reduction,
                                         impacts(optProblem),
                                         LevelDenOf(optProblem))

\* the linear program has listed a fractional level, and the genetic
\* algorithm two initiatives
C27_Witness ==
    /\ optSummary.ran
    /\ \E r \in SuccessfulResults :
           /\ r.method = "linear_programming"
           /\ \E k \in DOMAIN r.levels :
                  r.levels[k] < LevelDenOf(optProblem)
    /\ \E r \in SuccessfulResults :
           r.method = "genetic_algorithm" /\ Len(r.selected) = 2

(***************************************************************************)
(* Properties of the scenario comparison                                   *)
(***************************************************************************)
\* C28: whenever compare_scenarios emits the trade-off statement "X achieves
\* highest reduction but at higher cost than Y", X has the greatest emission
\* reduction among the compared non-baseline scenarios and X's total
\* intervention cost is strictly greater than Y's.
C28_TradeOffStatementIsTrue ==
    \A k \in DOMAIN comparison.trade_offs :
        comparison.trade_offs[k].statement = "highest_reduction_at_higher_cost"
            => /\ \A n \in Range(comparison.scenarios_compared) :
                      RLe(comparison.comparison_metrics[n].emission_reduction,
                          comparison.comparison_metrics[
                              comparison.trade_offs[k].x].emission_reduction)
               /\ comparison.comparison_metrics[
                      comparison.trade_offs[k].x].total_cost
                     > comparison.comparison_metrics[
                           comparison.trade_offs[k].y].total_cost

(***************************************************************************)
(* Properties of the approval workflow                                     *)
(***************************************************************************)
HasApprovedRow(level) ==
    \E i \in DOMAIN approvals :
        approvals[i].approval_level = level /\ approvals[i].status = "approved"

\* C29: in any sequence of submit_for_approval and process_approval calls, a
\* report's status becomes APPROVED only when every approval level of its
\* framework's workflow has an approval record in status approved.
C29_ApprovedOnlyWhenAllLevelsApproved ==
    report.status = "approved"
        => \A level \in Range(WorkflowLevels(report.framework)) :
               HasApprovedRow(level)

(***************************************************************************)
(* Properties of the rate limiter                                          *)
(***************************************************************************)
\* the calls that returned in the minute starting at tick w
ReturnedInWindow(w) ==
    {i \in DOMAIN returned :
        w <= returned[i] /\ returned[i] < w + TicksPerMinute}

\* C30: for a RateLimiter with requests_per_minute = N shared by any number
\* of threads, in every 60-second window at most N calls of wait_if_needed
\* return to their callers.
C30_AtMostNReturnsPerMinute ==
    \A w \in 0..MaxTime :
        Cardinality(ReturnedInWindow(w)) <= limiter.requests_per_minute

(***************************************************************************)
(* Properties of the statistical detector                                  *)
(***************************************************************************)
\* C25: in detect_anomalies the statistical detector's verdict for a record
\* is determined by that record's feature values and the thresholds fixed at
\* training time only: scoring the same record inside two different batches
\* of new data gives the same statistical verdict.
C25_VerdictIndependentOfBatch ==
    [][(/\ statResult.outcome = "ok"
        /\ statResult'.outcome = "ok"
        /\ statModel' = statModel)
          => \A i \in DOMAIN statResult.data, j \in DOMAIN statResult'.data :
                statResult.data[i] = statResult'.data[j]
                    => statResult.is_anomaly[i] = statResult'.is_anomaly[j]]_vars

====
